---- MODULE Spec2Model ----
(***************************************************************************)
(* Verification model of the hybrid retrieval core of the smart knowledge  *)
(* repository: the embedding provider chain (construction-time selection   *)
(* and per-call fallback), ingestion into the vector index, soft deletion, *)
(* SearchEngine.search and ScopeAwareChatbot.process_query.                *)
(*                                                                         *)
(* Scores are integers in thousandths (1000 = 1.0).                        *)
(***************************************************************************)
EXTENDS Integers, Sequences, FiniteSets, TLC

VARIABLES
    env,             \* module-level flags and config read at construction
    pc,              \* "new" | "ready" | "failed" (EmbeddingGenerator.__init__ raised)
    embedding_type,  \* EmbeddingGenerator.embedding_type
    fallback_model,  \* TRUE once self.fallback_model exists
    testCalls,       \* providers that received a test call during construction
    documents,       \* documents table: id -> "absent" | "active" | "deleted"
    collection,      \* entries of the ChromaDB collection "general"
    context_len,     \* len(ScopeAwareChatbot.conversation_context)
    last,            \* record of the last operation and what it returned
    doc_rows,        \* rows of the documents table, by id: url, content_hash, status
    unique_first,    \* the UNIQUE column the documents table checks first
    proc,            \* the store_document calls in progress, by caller
    history,         \* which documents were stored under, and deleted with, which id
    conversation_context,  \* ScopeAwareChatbot.conversation_context: role and serial
    messages_added,  \* how many messages were ever added to conversation_context
    threads,         \* rows of the conversation_threads table, by id
    current_thread_id  \* ScopeAwareChatbot.current_thread_id, by session

\* the state of the document store
store == <<doc_rows, unique_first, proc, history>>

\* the state of the conversations
conversation == <<conversation_context, messages_added, threads, current_thread_id>>

vars == <<env, pc, embedding_type, fallback_model, testCalls, documents, collection,
          context_len, last, store, conversation>>

----------------------------------------------------------------------------
(* Bounds *)

\* document ids are 1..MaxDoc
MaxDoc == 2

\* process_query is called while fewer than MaxMessages - 1 messages were added
MaxMessages == 24

\* thread ids are 1..MaxThreads
MaxThreads == 3

----------------------------------------------------------------------------
(* Providers and their vectors *)

OPENAI == "openai"
GEMINI == "gemini"
SENTENCE_TRANSFORMER == "sentence_transformer"
NoProvider == "none"
NoVector == "None"

\* priority order of the chain
ProviderOrder == <<OPENAI, GEMINI, SENTENCE_TRANSFORMER>>
Providers == {OPENAI, GEMINI, SENTENCE_TRANSFORMER}

\* dimensionality of the vectors of text-embedding-ada-002, models/embedding-001
\* and all-MiniLM-L6-v2
OpenAIDim == 1536
GeminiDim == 768
LocalDim  == 384

Dim(p) == IF p = OPENAI THEN OpenAIDim ELSE IF p = GEMINI THEN GeminiDim ELSE LocalDim

----------------------------------------------------------------------------
(* Environment read by EmbeddingGenerator.__init__ *)

EnvFields == {"use_openai_embeddings", "OPENAI_AVAILABLE", "openai_api_key",
              "use_gemini_fallback", "GEMINI_AVAILABLE", "gemini_api_key",
              "SENTENCE_TRANSFORMERS_AVAILABLE", "chroma_available"}

AllEnvs == [EnvFields -> BOOLEAN]

\* the deployments explored together with ingestion and search: keys and enable
\* flags are set and the provider libraries import; ChromaDB may be missing
MainEnvs == {e \in AllEnvs : \A f \in EnvFields \ {"chroma_available"} : e[f]}

OpenAIPrereq(e) == e["use_openai_embeddings"] /\ e["OPENAI_AVAILABLE"] /\ e["openai_api_key"]
GeminiPrereq(e) == e["use_gemini_fallback"] /\ e["GEMINI_AVAILABLE"] /\ e["gemini_api_key"]
LocalPrereq(e)  == e["SENTENCE_TRANSFORMERS_AVAILABLE"]

\* outcome of the test call client.embeddings.create(input="test")
TestOutcomes == {"ok", "quota", "other"}
\* outcome of genai.configure and of SentenceTransformer(config.embedding_model)
CallOutcomes == {"ok", "raise"}

\* a construction step yields the embedding_type it leaves and whether it raised
Sel(t) == [type |-> t, raised |-> FALSE]
Raised(t) == [type |-> t, raised |-> TRUE]

\* _fallback_to_local: cur is embedding_type on entry
FallbackToLocal(e, stload, cur) ==
    IF e["SENTENCE_TRANSFORMERS_AVAILABLE"]
    THEN IF stload = "ok" THEN Sel(SENTENCE_TRANSFORMER) ELSE Raised(cur)
    ELSE Sel(NoProvider)

\* _setup_gemini_embeddings
SetupGeminiEmbeddings(e, gcfg, stload, cur) ==
    IF e["GEMINI_AVAILABLE"] /\ gcfg = "ok"
    THEN Sel(GEMINI)
    ELSE FallbackToLocal(e, stload, cur)

\* _fallback_to_gemini
FallbackToGemini(e, gcfg, stload, cur) ==
    IF GeminiPrereq(e)
    THEN SetupGeminiEmbeddings(e, gcfg, stload, cur)
    ELSE FallbackToLocal(e, stload, cur)

TestOpenAISwallowsAll(test) == FALSE
\* _test_openai_embeddings: TRUE when the test call's error is re-raised
TestOpenAIRaises(test) == test = "quota"

\* _setup_openai_embeddings
SetupOpenAIEmbeddings(e, test, gcfg, stload) ==
    IF TestOpenAIRaises(test)
    THEN FallbackToGemini(e, gcfg, stload, OPENAI)
    ELSE Sel(OPENAI)

\* the providers _initialize_embedding_model sends a test call to
TestedProviders(e) == IF OpenAIPrereq(e) THEN {OPENAI} ELSE {}

\* _initialize_embedding_model, its except handler included
InitializeEmbeddingModel(e, test, gcfg, stload) ==
    LET first ==
            IF OpenAIPrereq(e) THEN SetupOpenAIEmbeddings(e, test, gcfg, stload)
            ELSE IF GeminiPrereq(e) THEN SetupGeminiEmbeddings(e, gcfg, stload, NoProvider)
            ELSE IF e["SENTENCE_TRANSFORMERS_AVAILABLE"]
                 THEN (IF stload = "ok" THEN Sel(SENTENCE_TRANSFORMER) ELSE Raised(NoProvider))
            ELSE Sel(NoProvider)
    IN  IF ~first.raised THEN first
        ELSE IF e["GEMINI_AVAILABLE"] /\ e["gemini_api_key"]
             THEN SetupGeminiEmbeddings(e, gcfg, stload, first.type)
        ELSE IF e["SENTENCE_TRANSFORMERS_AVAILABLE"]
             THEN (IF stload = "ok" THEN Sel(SENTENCE_TRANSFORMER) ELSE Raised(first.type))
        ELSE Sel(NoProvider)

----------------------------------------------------------------------------
(* One embed call: _generate_embedding *)

\* what a provider call does: "ok" or the class of the exception it raises
RemoteOutcomes == {"ok", "quota", "rate_limit", "too_many_requests", "auth"}
LocalOutcomes  == {"ok", "error"}

Outcomes == {o \in [Providers -> RemoteOutcomes \cup LocalOutcomes] :
                /\ o[OPENAI] \in RemoteOutcomes
                /\ o[GEMINI] \in RemoteOutcomes
                /\ o[SENTENCE_TRANSFORMER] \in LocalOutcomes}

\* the keywords of the code's lists that occur in str(e).lower() for each class
Keywords(err) ==
    CASE err = "quota"             -> {"quota", "exceeded", "insufficient_quota"}
      [] err = "rate_limit"        -> {"limit", "rate limit", "rate_limit", "exceeded"}
      [] err = "too_many_requests" -> {"too many requests"}
      [] OTHER                     -> {}

QuotaKeywordsOpenAI_RateOnly == {"limit"}
QuotaKeywordsOpenAI == {"quota", "exceeded", "limit", "insufficient_quota"}
RateKeywordsOpenAI  == {"rate_limit", "rate limit", "too many requests"}
QuotaKeywordsGemini == {"quota", "exceeded", "limit", "resource_exhausted"}

\* _generate_sentence_transformer_fallback
GenerateSentenceTransformerFallback(o) ==
    IF o[SENTENCE_TRANSFORMER] = "ok" THEN SENTENCE_TRANSFORMER ELSE NoVector

\* _generate_gemini_embedding_fallback (the second definition, which is the one bound)
GenerateGeminiEmbeddingFallback(o) ==
    IF o[GEMINI] = "ok" THEN GEMINI ELSE GenerateSentenceTransformerFallback(o)

\* _generate_embedding: the provider whose vector is returned, or NoVector
GenerateEmbedding(type, o) ==
    IF type = NoProvider THEN NoVector
    ELSE IF o[type] = "ok" THEN type
    ELSE IF type = OPENAI /\ Keywords(o[type]) \cap QuotaKeywordsOpenAI # {}
         THEN GenerateGeminiEmbeddingFallback(o)
    ELSE IF type = OPENAI /\ Keywords(o[type]) \cap RateKeywordsOpenAI # {}
         THEN GenerateGeminiEmbeddingFallback(o)
    ELSE IF type = GEMINI /\ Keywords(o[type]) \cap QuotaKeywordsGemini # {}
         THEN GenerateSentenceTransformerFallback(o)
    ELSE NoVector

\* self.fallback_model after the call: _generate_sentence_transformer_fallback
\* creates it the first time the local fallback is reached and loads
FallbackModelAfter(type, o, had) ==
    \/ had
    \/ /\ type \in {OPENAI, GEMINI}
       /\ o[type] # "ok"
       /\ GenerateEmbedding(type, o) = SENTENCE_TRANSFORMER

DemoteOnFallback(type, result) ==
    IF result \in Providers /\ result # type THEN result ELSE type
\* self.embedding_type after an embed call: no branch of _generate_embedding or
\* of the fallbacks assigns it
EmbeddingTypeAfterEmbed(type, result) == type

\* the providers a call can reach: the selected one and those after it
Rank(p) == CHOOSE i \in 1..Len(ProviderOrder) : ProviderOrder[i] = p
ChainFrom(type) ==
    IF type = NoProvider THEN {}
    ELSE {p \in Providers : Rank(p) >= Rank(type)}

\* whether every provider of the chain fails in a call
AllFail(type, o) == \A p \in ChainFrom(type) : o[p] # "ok"

----------------------------------------------------------------------------
(* Construction and single embed calls *)

NoDocuments == [d \in 1..MaxDoc |-> "absent"]

\* the callers of store_document
Callers == {1, 2}

\* no store_document call was made
NoCall == [pc |-> "idle"]

\* an empty documents table, nothing stored and nobody calling
StoreUnused ==
    /\ doc_rows = <<>>
    /\ unique_first = "url"
    /\ proc = [p \in Callers |-> NoCall]
    /\ history = [stored |-> {}, cycled |-> {}]

\* the sessions that use the program, each through a chatbot of its own
Sessions == {"s1", "s2"}
ThreadIds == 1..MaxThreads

\* current_thread_id of a session whose chatbot is not constructed; None
NotConstructed == -1
None == 0

NoThread == [session |-> "none", recent |-> FALSE]

\* no message in the context, an empty conversation_threads table, no chatbot
\* with conversation management
ConversationUnused ==
    /\ conversation_context = <<>>
    /\ messages_added = 0
    /\ threads = [t \in ThreadIds |-> NoThread]
    /\ current_thread_id = [s \in Sessions |-> NotConstructed]

InitWith(envs) ==
    /\ env \in envs
    /\ pc = "new"
    /\ embedding_type = NoProvider
    /\ fallback_model = FALSE
    /\ testCalls = {}
    /\ documents = NoDocuments
    /\ collection = {}
    /\ context_len = 0
    /\ last = [op |-> "init"]
    /\ StoreUnused
    /\ ConversationUnused

\* EmbeddingGenerator.__init__
Construct ==
    /\ pc = "new"
    /\ \E test \in (IF OpenAIPrereq(env) THEN TestOutcomes ELSE {"none"}),
          gcfg \in CallOutcomes, stload \in CallOutcomes :
         LET r == InitializeEmbeddingModel(env, test, gcfg, stload)
         IN  /\ pc' = IF r.raised THEN "failed" ELSE "ready"
             /\ embedding_type' = r.type
             /\ testCalls' = TestedProviders(env)
             /\ last' = [op |-> "construct", test |-> test, gcfg |-> gcfg,
                         stload |-> stload]
    /\ UNCHANGED <<store, conversation, env, fallback_model, documents, collection, context_len>>

\* one call of _generate_embedding on a constructed generator
EmbedCall ==
    /\ pc = "ready"
    /\ \E o \in Outcomes :
         LET res == GenerateEmbedding(embedding_type, o)
         IN  /\ last' = [op |-> "embed", outcome |-> o, result |-> res]
             /\ fallback_model' = FallbackModelAfter(embedding_type, o, fallback_model)
             /\ embedding_type' = EmbeddingTypeAfterEmbed(embedding_type, res)
    /\ UNCHANGED <<store, conversation, env, pc, testCalls, documents, collection, context_len>>

InitEmbed == InitWith(AllEnvs)
NextEmbed == Construct \/ EmbedCall
SpecEmbed == InitEmbed /\ [][NextEmbed]_vars

----------------------------------------------------------------------------
(* Documents and the chunker *)

DocIds == 1..MaxDoc

\* config.chunk_size
chunk_size == 500

\* The documents offered for ingestion.  A body is the sequence of its
\* paragraphs after content.split and strip, blank ones dropped; a paragraph is
\* given by its length and is identified by its index in the body.
DocHasTitle(d) == d = 1
DocParagraphs(d) == IF d = 1 THEN <<300>> ELSE <<200>>

RECURSIVE SumLen(_, _)
SumLen(paras, idx) ==
    IF idx = <<>> THEN 0 ELSE paras[Head(idx)] + SumLen(paras, Tail(idx))

\* len(current_chunk): the paragraphs of idx joined by blank lines
BufferLen(paras, idx) ==
    IF idx = <<>> THEN 0 ELSE SumLen(paras, idx) + 2 * (Len(idx) - 1)

ContentChunk(idx, pos) ==
    [text |-> [kind |-> "content", paras |-> idx], type |-> "content", position |-> pos]

TitleChunk ==
    [text |-> [kind |-> "title", paras |-> <<>>], type |-> "title", position |-> 0]

\* a buffer that is emptied when it is saved
BufferEmptied(i) == <<>>
\* current_chunk = paragraph, after the buffer was saved
BufferAfterSave(i) == <<i>>

\* the paragraph loop of _split_into_chunks and the flush after it
RECURSIVE SplitLoop(_, _, _, _, _)
SplitLoop(paras, i, cur, pos, chunks) ==
    IF i > Len(paras)
    THEN IF cur # <<>> THEN Append(chunks, ContentChunk(cur, pos)) ELSE chunks
    ELSE IF BufferLen(paras, cur) + paras[i] > chunk_size /\ cur # <<>>
         THEN SplitLoop(paras, i + 1, BufferAfterSave(i), pos + 1,
                        Append(chunks, ContentChunk(cur, pos)))
         ELSE SplitLoop(paras, i + 1, Append(cur, i), pos, chunks)

\* a position count that starts at 0 whatever was emitted before
PositionZero(chunks) == 0
\* chunk_position = len(chunks)
FirstContentPosition(chunks) == Len(chunks)

\* _split_into_chunks
SplitIntoChunks(paras, hasTitle) ==
    LET start == IF hasTitle THEN <<TitleChunk>> ELSE <<>>
    IN  SplitLoop(paras, 1, <<>>, FirstContentPosition(start), start)

DocChunks(d) == SplitIntoChunks(DocParagraphs(d), DocHasTitle(d))

\* the text of chunk k of document d, as handed to _generate_embedding
ChunkText(d, k) == [doc |-> d, text |-> DocChunks(d)[k].text]

----------------------------------------------------------------------------
(* Ingestion into the vector index *)

\* what one embed call amounts to for its caller: whether every provider of the
\* chain failed, and the provider whose vector came back (or NoVector)
EmbedSummary(type, o) == [allFail |-> AllFail(type, o), res |-> GenerateEmbedding(type, o)]
EmbedSummaries(type) == {EmbedSummary(type, o) : o \in Outcomes}

\* a vector: the provider that computed it and the text it was computed from
Vector(p, t) == [provider |-> p, text |-> t]

RECURSIVE KeptEmbeddings(_, _, _)
\* generate_embeddings_for_document, the loop: embeddings of the chunks whose
\* embed call returned a vector, in chunk order
KeptEmbeddings(d, sums, k) ==
    IF k > Len(sums) THEN <<>>
    ELSE IF sums[k].res # NoVector
         THEN <<Vector(sums[k].res, ChunkText(d, k))>> \o KeptEmbeddings(d, sums, k + 1)
         ELSE KeptEmbeddings(d, sums, k + 1)

Min(a, b) == IF a < b THEN a ELSE b

\* add_embeddings: the records built from zip(chunks, embeddings)
ZippedEntries(d, chunks, embeddings) ==
    { [id |-> <<d, i - 1>>,
       document_id |-> d,
       chunk_position |-> chunks[i].position,
       text |-> [doc |-> d, text |-> chunks[i].text],
       vec |-> embeddings[i]] : i \in 1..Min(Len(chunks), Len(embeddings)) }

\* collection.add: records whose id the collection already holds are left as
\* they are
CollectionAdd(coll, entries) ==
    coll \cup {e \in entries : ~\E x \in coll : x.id = e.id}

\* generate_embeddings_for_document: the collection afterwards.  sums are the
\* chunks' embed calls, addOk whether collection.add went through.
GenerateEmbeddingsForDocument(type, chromaOk, coll, d, sums, addOk) ==
    LET embeddings == KeptEmbeddings(d, sums, 1)
    IN  IF type = NoProvider THEN coll
        ELSE IF embeddings # <<>> /\ chromaOk /\ addOk
             THEN CollectionAdd(coll, ZippedEntries(d, DocChunks(d), embeddings))
        ELSE coll

\* the embed calls a call of generate_embeddings_for_document makes
ChunkSummaries(type, d) ==
    IF type = NoProvider THEN {<<>>}
    ELSE [1..Len(DocChunks(d)) -> EmbedSummaries(type)]

\* self.fallback_model after the calls of sums
FallbackModelAfterAll(had, type, sums) ==
    \/ had
    \/ \E k \in 1..Len(sums) : type # SENTENCE_TRANSFORMER /\ sums[k].res = SENTENCE_TRANSFORMER

\* self.embedding_type after the calls of sums
RECURSIVE EmbeddingTypeAfterAll(_, _)
EmbeddingTypeAfterAll(type, sums) ==
    IF sums = <<>> THEN type
    ELSE EmbeddingTypeAfterAll(EmbeddingTypeAfterEmbed(type, Head(sums).res), Tail(sums))

\* StorageManager.store_document for a valid document d (its URL and content
\* hash are those of d alone)
StoreDocument ==
    /\ pc = "ready"
    /\ \E d \in DocIds :
         IF documents[d] = "active"
         THEN \* _check_duplicate finds the active row
              /\ last' = [op |-> "store", doc |-> d, result |-> "exists",
                          failed |-> {}, added |-> {}]
              /\ UNCHANGED <<documents, collection, fallback_model, embedding_type>>
         ELSE \* absent: _insert_document; deleted: the insert fails on the UNIQUE
              \* constraint and _reactivate_document sets the row active; both
              \* then call _generate_embeddings_async
              \E sums \in ChunkSummaries(embedding_type, d), addOk \in BOOLEAN :
                LET coll == GenerateEmbeddingsForDocument(embedding_type,
                                env["chroma_available"], collection, d, sums, addOk)
                IN  /\ documents' = [documents EXCEPT ![d] = "active"]
                    /\ collection' = coll
                    /\ fallback_model' = FallbackModelAfterAll(fallback_model, embedding_type, sums)
                    /\ embedding_type' = EmbeddingTypeAfterAll(embedding_type, sums)
                    /\ last' = [op |-> "store", doc |-> d,
                                result |-> IF documents[d] = "absent" THEN "stored"
                                           ELSE "reactivated",
                                failed |-> {k \in 1..Len(sums) : sums[k].allFail},
                                added |-> coll \ collection]
    /\ UNCHANGED <<store, conversation, env, pc, testCalls, context_len>>

\* hasattr(self, 'chroma_client') in delete_document: StorageManager.__init__
\* sets logger, validator and embedding_generator only
StorageManagerHasChromaClient == FALSE

\* StorageManager.delete_document
DeleteDocument ==
    /\ pc = "ready"
    /\ \E d \in DocIds, soft_delete \in BOOLEAN :
         /\ documents' = [documents EXCEPT ![d] =
                            IF documents[d] = "absent" THEN "absent"
                            ELSE IF soft_delete THEN "deleted" ELSE "absent"]
         /\ collection' = IF StorageManagerHasChromaClient
                          THEN {e \in collection : e.document_id # d}
                          ELSE collection
         /\ last' = [op |-> "delete", doc |-> d, soft_delete |-> soft_delete,
                     result |-> documents[d] # "absent"]
    /\ UNCHANGED <<store, conversation, env, pc, embedding_type, fallback_model, testCalls, context_len>>

----------------------------------------------------------------------------
(* SearchEngine.search *)

\* Queries: None, the empty string, a whitespace-only string and two questions
NoneQuery == "<None>"
Queries == {NoneQuery, "", " ", "what is ai", "compare ai and ml"}

\* query.strip() on these queries
Strip(q) == IF q = " " THEN "" ELSE q

\* not query or not query.strip()
IsBlankQuery(q) == q = NoneQuery \/ q = "" \/ Strip(q) = ""

SearchTypes == {"hybrid", "fulltext", "semantic"}

\* the parameters search_documents and search_similar_chunks declare, and the
\* arguments SearchEngine passes them by keyword
SearchDocumentsParams == {"query", "limit"}
SearchSimilarChunksWithDomain == {"query", "domain", "limit", "threshold"}
SearchSimilarChunksParams == {"query", "limit", "threshold"}
LexicalCallKeywords == {"category", "limit"}
SemanticCallKeywords == {"query", "domain", "limit"}

\* a call with a keyword the callee does not declare raises TypeError
CallRaisesTypeError(keywords, params) == ~(keywords \subseteq params)

\* d.title LIKE ? OR d.content LIKE ? for the cleaned query: document 1 is
\* about AI, document 2 is unrelated to every query
TextMatches(q, d) == d = 1

\* the lexical leg: the call of search_documents in search.  Rows are the
\* active documents that match.
LexicalLeg(q, docs) ==
    IF CallRaisesTypeError(LexicalCallKeywords, SearchDocumentsParams)
    THEN [raised |-> TRUE, rows |-> {}]
    ELSE [raised |-> FALSE, rows |-> {d \in DocIds : docs[d] = "active" /\ TextMatches(q, d)}]

\* search_similar_chunks: the chunks ChromaDB returns for the query vector.
\* sum is the query's embed call, queryOk whether collection.query went through.
SearchSimilarChunks(type, chromaOk, coll, sum, queryOk) ==
    IF type = NoProvider \/ ~chromaOk
    THEN [hits |-> {}, failed |-> TRUE, embedCalled |-> FALSE, queryVector |-> NoVector]
    ELSE IF sum.res = NoVector
         THEN [hits |-> {}, failed |-> TRUE, embedCalled |-> TRUE, queryVector |-> NoVector]
         ELSE [hits |-> IF queryOk THEN coll ELSE {}, failed |-> ~queryOk,
               embedCalled |-> TRUE, queryVector |-> sum.res]

\* _semantic_search, lines 109-113: get_document_by_id is read for the content
\* of the row; the status of the row is not looked at
KeptAfterContentLookup(d, docs) == TRUE

\* _semantic_search: the documents of the chunks found; [] when anything raises
SemanticLeg(type, chromaOk, coll, docs, sum, queryOk) ==
    IF CallRaisesTypeError(SemanticCallKeywords, SearchSimilarChunksParams)
    THEN [rows |-> {}, failed |-> TRUE, embedCalled |-> FALSE, queryVector |-> NoVector]
    ELSE LET r == SearchSimilarChunks(type, chromaOk, coll, sum, queryOk)
         IN  [rows |-> {d \in {e.document_id : e \in r.hits} :
                          KeptAfterContentLookup(d, docs)},
              failed |-> r.failed,
              embedCalled |-> r.embedCalled, queryVector |-> r.queryVector]

NoCalls == [lexicalCalled |-> FALSE, semanticCalled |-> FALSE, embedCalled |-> FALSE,
            lexicalFailed |-> FALSE, semanticFailed |-> FALSE,
            embedAllFail |-> FALSE, queryVector |-> NoVector]

\* the summary that stands for "no embed call was made"
NoEmbedCall == [allFail |-> FALSE, res |-> NoVector]

\* SearchEngine.search: whether it raised, the documents of the returned list,
\* and the calls it made
SearchResult(q, search_type, type, chromaOk, coll, docs, sum, queryOk) ==
    IF IsBlankQuery(q)
    THEN [outcome |-> "returned", results |-> {}] @@ NoCalls
    ELSE LET lexical == search_type \in {"hybrid", "fulltext"}
             semantic == search_type \in {"hybrid", "semantic"}
             lex == LexicalLeg(q, docs)
             sem == SemanticLeg(type, chromaOk, coll, docs, sum, queryOk)
         IN  IF lexical /\ lex.raised
             THEN [outcome |-> "raised", results |-> {},
                   lexicalCalled |-> TRUE, semanticCalled |-> FALSE,
                   lexicalFailed |-> TRUE, semanticFailed |-> FALSE,
                   embedCalled |-> FALSE, embedAllFail |-> FALSE,
                   queryVector |-> NoVector]
             ELSE [outcome |-> "returned",
                   results |-> (IF lexical THEN lex.rows ELSE {})
                               \cup (IF semantic THEN sem.rows ELSE {}),
                   lexicalCalled |-> lexical,
                   semanticCalled |-> semantic,
                   lexicalFailed |-> FALSE,
                   semanticFailed |-> semantic /\ sem.failed,
                   embedCalled |-> semantic /\ sem.embedCalled,
                   embedAllFail |-> semantic /\ sem.embedCalled /\ sum.allFail,
                   queryVector |-> IF semantic THEN sem.queryVector ELSE NoVector]

\* whether a call of search reaches _generate_embedding
SearchEmbeds(q, search_type, type, chromaOk) ==
    SearchResult(q, search_type, type, chromaOk, {}, NoDocuments, NoEmbedCall, FALSE).embedCalled

\* the embed calls and index queries a call of search can see
EmbedInputs(called, type) == IF called THEN EmbedSummaries(type) ELSE {NoEmbedCall}
QueryInputs(called) == IF called THEN BOOLEAN ELSE {FALSE}

\* a call of SearchEngine.search
Search ==
    /\ pc = "ready"
    /\ \E q \in Queries, search_type \in SearchTypes :
        \E sum \in EmbedInputs(SearchEmbeds(q, search_type, embedding_type,
                                            env["chroma_available"]), embedding_type),
           queryOk \in QueryInputs(SearchEmbeds(q, search_type, embedding_type,
                                                env["chroma_available"])) :
         LET r == SearchResult(q, search_type, embedding_type, env["chroma_available"],
                               collection, documents, sum, queryOk)
         IN  /\ last' = [op |-> "search", query |-> q, search_type |-> search_type] @@ r
             /\ fallback_model' =
                    IF r.embedCalled
                    THEN FallbackModelAfterAll(fallback_model, embedding_type, <<sum>>)
                    ELSE fallback_model
             /\ embedding_type' =
                    IF r.embedCalled
                    THEN EmbeddingTypeAfterEmbed(embedding_type, sum.res)
                    ELSE embedding_type
    /\ UNCHANGED <<store, conversation, env, pc, testCalls, documents, collection, context_len>>

----------------------------------------------------------------------------
(* ScopeAwareChatbot.process_query *)

OUT_OF_SCOPE == "out_of_scope"
IN_SCOPE == "in_scope"
PARTIAL_SCOPE == "partial_scope"

\* DomainDetector._build_intent_patterns, in the order of the dict
IntentOrder == <<"factual", "comparison", "how_to", "list", "analysis", "recommendation">>
IntentPatterns ==
    [factual |-> {"what is", "define", "explain", "describe", "tell me about"},
     comparison |-> {"compare", "difference", "versus", "vs", "better than", "similar"},
     how_to |-> {"how to", "how can", "steps to", "guide", "tutorial"},
     list |-> {"list", "examples", "types of", "kinds of", "show me"},
     analysis |-> {"analyze", "evaluate", "assess", "review", "opinion"},
     recommendation |-> {"recommend", "suggest", "best", "should i", "which"}]

\* the patterns that are substrings of the lowercased query
PatternsIn(q) ==
    IF q = "what is ai" THEN {"what is"}
    ELSE IF q = "compare ai and ml" THEN {"compare"}
    ELSE {}

\* a score that counts the matched patterns without dividing by len(patterns)
MatchCount(matched, intent) ==
    Cardinality(IntentPatterns[intent] \cap matched) * 1000
\* score / len(patterns) of an intent for a query that contains the patterns
\* matched, in thousandths
MatchedFraction(matched, intent) ==
    (Cardinality(IntentPatterns[intent] \cap matched) * 1000)
        \div Cardinality(IntentPatterns[intent])

IntentScore(q, intent) == MatchedFraction(PatternsIn(q), intent)

\* classify_intent on a query that contains the patterns matched: the first
\* intent of the highest score, factual at 0.5 when every score is 0
ClassifyMatched(matched) ==
    LET best == CHOOSE i \in 1..Len(IntentOrder) :
                  /\ \A j \in 1..Len(IntentOrder) :
                        MatchedFraction(matched, IntentOrder[j])
                            <= MatchedFraction(matched, IntentOrder[i])
                  /\ \A j \in 1..(i - 1) :
                        MatchedFraction(matched, IntentOrder[j])
                            < MatchedFraction(matched, IntentOrder[i])
    IN  IF MatchedFraction(matched, IntentOrder[best]) = 0
        THEN [intent |-> "factual", intent_confidence |-> 500]
        ELSE [intent |-> IntentOrder[best],
              intent_confidence |-> MatchedFraction(matched, IntentOrder[best])]

ClassifyIntent(q) == ClassifyMatched(PatternsIn(q))

\* optimize_query: the two longest entities when there are entities, else the
\* lowercased query when nothing is left of it
OptimizeQuery(q) ==
    IF q = "what is ai" THEN "ai"
    ELSE IF q = "compare ai and ml" THEN "ai ml"
    ELSE q

\* _determine_search_strategy
DetermineSearchStrategy(intent) ==
    CASE intent = "factual" -> "hybrid"
      [] intent = "comparison" -> "semantic"
      [] intent = "how_to" -> "fulltext"
      [] intent = "list" -> "fulltext"
      [] intent = "analysis" -> "semantic"
      [] intent = "recommendation" -> "hybrid"
      [] OTHER -> "hybrid"

\* the values max_score takes in _analyze_query_scope_enhanced, in thousandths
SemanticScores == {300, 500, 800}

ScopeInclusiveThreshold(relevant_docs, max_score) ==
    IF relevant_docs # {}
    THEN IF max_score >= 700 THEN IN_SCOPE ELSE PARTIAL_SCOPE
    ELSE OUT_OF_SCOPE
ScopeWithoutCountCheck(relevant_docs, max_score) ==
    IF max_score > 700 THEN IN_SCOPE ELSE PARTIAL_SCOPE
\* _analyze_query_scope_enhanced: the scope for the documents the semantic
\* search returned and the best semantic_score among them
AnalyzeQueryScopeEnhanced(relevant_docs, max_score) ==
    IF relevant_docs # {}
    THEN IF max_score > 700 THEN IN_SCOPE ELSE PARTIAL_SCOPE
    ELSE OUT_OF_SCOPE

\* sum(r.get('score', 0) for r in search_results)
RECURSIVE SumScores(_)
SumScores(scores) ==
    IF scores = <<>> THEN 0 ELSE scores[1] + SumScores(Tail(scores))

\* len([r for r in search_results if r.get('score', 0) > 0.5])
QualityResults(scores) == Cardinality({i \in 1..Len(scores) : scores[i] > 500})

\* avg_score * 0.4 + intent_confidence * 0.3 + result_factor * 0.3 as the
\* fraction num / den of thousandths, where avg_score = sum / len and
\* result_factor = min(quality_results / 3, 1.0)
CombineFactors(scores, intent_confidence) ==
    LET n == Len(scores)
        q == QualityResults(scores)
    IN  [num |-> 4 * SumScores(scores) + 3 * intent_confidence * n
                    + 1000 * (IF q < 3 THEN q ELSE 3) * n,
         den |-> 10 * n]

\* a confidence that is returned as computed
NoClamp(c) == c
\* min(max(confidence, 0.0), 1.0)
Clamp(c) ==
    IF c.num < 0 THEN [num |-> 0, den |-> c.den]
    ELSE IF c.num > 1000 * c.den THEN [num |-> 1000 * c.den, den |-> c.den]
    ELSE c

\* _calculate_response_confidence on results with the given scores and an
\* analysis with the given intent_confidence, in thousandths as num / den
ResponseConfidence(scores, intent_confidence) ==
    IF scores = <<>> THEN [num |-> 0, den |-> 1]
    ELSE Clamp(CombineFactors(scores, intent_confidence))

\* _calculate_response_confidence on the results of a search: they carry no
\* 'score' key, so each counts with the default score 0
CalculateResponseConfidence(search_results, intent_confidence) ==
    LET c == ResponseConfidence([i \in 1..Cardinality(search_results) |-> 0],
                                intent_confidence)
    IN  c.num \div c.den

\* the response of the except branch of process_query
ErrorResponse ==
    [kind |-> "error", scope |-> OUT_OF_SCOPE, has_confidence |-> TRUE, confidence |-> 0,
     sources |-> {}]

\* _handle_out_of_scope_query: the dict it returns has no 'confidence' key
HandleOutOfScopeQuery ==
    [kind |-> "out_of_scope", scope |-> OUT_OF_SCOPE, has_confidence |-> FALSE,
     confidence |-> 0, sources |-> {}]

\* _handle_in_scope_query_enhanced, given the result of its search
HandleInScopeQueryEnhanced(scope, r, intent_confidence) ==
    [kind |-> "in_scope", scope |-> scope, has_confidence |-> TRUE,
     confidence |-> CalculateResponseConfidence(r.results, intent_confidence),
     sources |-> r.results]

\* the messages conversation_context keeps
ContextWindow == 20

\* _add_to_conversation_context, n times
AddToConversationContext(len, n) ==
    IF len + n > ContextWindow THEN ContextWindow ELSE len + n

\* a context that keeps its first messages
KeepFirst(context) ==
    IF Len(context) > ContextWindow THEN SubSeq(context, 1, ContextWindow) ELSE context
\* conversation_context[-20:] when the context is longer than 20
KeepLast(context) ==
    IF Len(context) > ContextWindow
    THEN SubSeq(context, Len(context) - ContextWindow + 1, Len(context))
    ELSE context

\* _add_to_conversation_context: the message is appended and the window cut;
\* serial counts the messages ever added
AddMessage(context, role, serial) ==
    KeepLast(Append(context, [role |-> role, serial |-> serial]))

\* the messages a call of process_query adds: none when it fails before line
\* 304, the user message when it fails between lines 304 and 326, the user
\* message and then the assistant message otherwise
AddMessages(context, serial, added) ==
    IF added = 0 THEN context
    ELSE IF added = 1 THEN AddMessage(context, "user", serial + 1)
    ELSE AddMessage(AddMessage(context, "user", serial + 1), "assistant", serial + 2)

\* whether the scope search of process_query reaches _generate_embedding
ScopeSearchEmbeds(q) ==
    /\ q # NoneQuery
    /\ SearchEmbeds(OptimizeQuery(q), "semantic", embedding_type, env["chroma_available"])

\* the scope search of process_query
ScopeSearch(q, scopeSum, scopeOk) ==
    SearchResult(OptimizeQuery(q), "semantic", embedding_type, env["chroma_available"],
                 collection, documents, scopeSum, scopeOk)

\* the scores the documents of the scope search can carry
ScoreInputs(q, scopeSum, scopeOk) ==
    IF q # NoneQuery /\ ScopeSearch(q, scopeSum, scopeOk).results # {}
    THEN SemanticScores ELSE {0}

\* whether process_query goes on to an answer search that embeds
AnswerSearchEmbeds(q, scopeSum, scopeOk) ==
    /\ q # NoneQuery
    /\ ScopeSearch(q, scopeSum, scopeOk).results # {}
    /\ SearchEmbeds(OptimizeQuery(q), DetermineSearchStrategy(ClassifyIntent(q).intent),
                    embedding_type, env["chroma_available"])

\* a call of ScopeAwareChatbot.process_query.  scopeSum and scopeOk are the
\* embed call and the index query of the scope search, sum and queryOk those
\* of the answer search.
ProcessQuery ==
    /\ pc = "ready"
    /\ messages_added + 2 <= MaxMessages
    /\ \E q \in Queries :
        \E scopeSum \in EmbedInputs(ScopeSearchEmbeds(q), embedding_type),
           scopeOk \in QueryInputs(ScopeSearchEmbeds(q)) :
        \E max_score \in ScoreInputs(q, scopeSum, scopeOk),
           sum \in EmbedInputs(AnswerSearchEmbeds(q, scopeSum, scopeOk), embedding_type),
           queryOk \in QueryInputs(AnswerSearchEmbeds(q, scopeSum, scopeOk)) :
         IF q = NoneQuery
         THEN \* detect_query_domain raises on None.lower(): the except branch
              /\ last' = [op |-> "process", query |-> q, outcome |-> "returned",
                          analyze_query_called |-> TRUE, scope_analysis_called |-> FALSE,
                          scope_search |-> [outcome |-> "none"],
                          answer_search |-> [outcome |-> "none"]] @@ ErrorResponse
              /\ UNCHANGED <<embedding_type, fallback_model, context_len,
                             conversation_context, messages_added>>
         ELSE LET analysis == ClassifyIntent(q)
                  optimized_query == OptimizeQuery(q)
                  rs == ScopeSearch(q, scopeSum, scopeOk)
                  scope == AnalyzeQueryScopeEnhanced(rs.results, max_score)
                  type1 == IF rs.embedCalled
                           THEN EmbeddingTypeAfterEmbed(embedding_type, scopeSum.res)
                           ELSE embedding_type
                  search_strategy == DetermineSearchStrategy(analysis.intent)
                  ra == SearchResult(optimized_query, search_strategy, type1,
                                     env["chroma_available"], collection, documents,
                                     sum, queryOk)
                  answered == scope # OUT_OF_SCOPE
                  response ==
                      IF rs.outcome = "raised" THEN ErrorResponse
                      ELSE IF ~answered THEN HandleOutOfScopeQuery
                      ELSE IF ra.outcome = "raised" THEN ErrorResponse
                      ELSE HandleInScopeQueryEnhanced(scope, ra, analysis.intent_confidence)
                  added == IF rs.outcome = "raised" THEN 0
                           ELSE IF response.kind = "error" THEN 1 ELSE 2
              IN  /\ last' = [op |-> "process", query |-> q, outcome |-> "returned",
                              analyze_query_called |-> TRUE,
                              scope_analysis_called |-> TRUE,
                              scope_search |-> rs,
                              answer_search |-> IF answered /\ rs.outcome # "raised"
                                                THEN ra ELSE [outcome |-> "none"]]
                             @@ response
                  /\ embedding_type' =
                        IF answered /\ ra.embedCalled
                        THEN EmbeddingTypeAfterEmbed(type1, sum.res) ELSE type1
                  /\ fallback_model' =
                        FallbackModelAfterAll(fallback_model, embedding_type,
                            (IF rs.embedCalled THEN <<scopeSum>> ELSE <<>>)
                            \o (IF answered /\ ra.embedCalled THEN <<sum>> ELSE <<>>))
                  /\ context_len' = AddToConversationContext(context_len, added)
                  /\ conversation_context' =
                        AddMessages(conversation_context, messages_added, added)
                  /\ messages_added' = messages_added + added
    /\ UNCHANGED <<store, threads, current_thread_id, env, pc, testCalls, documents,
                   collection>>

\* the program with its API keys configured and its providers enabled
Init == InitWith(MainEnvs)

\* ingestion, deletion and search
Next == Construct \/ StoreDocument \/ DeleteDocument \/ Search

Spec == Init /\ [][Next]_vars

\* the chatbot over an ingested corpus
NextChat == Construct \/ StoreDocument \/ ProcessQuery

SpecChat == Init /\ [][NextChat]_vars

----------------------------------------------------------------------------
(* Claims about the provider chain, checked under SpecEmbed *)

\* the provider after p in the chain
HasSuccessor(p) == p \in {OPENAI, GEMINI}
Successor(p) == ProviderOrder[Rank(p) + 1]

\* C1: when the selected provider fails an embed call with a quota error and
\* the next provider of the chain succeeds, the call returns the next
\* provider's vector (it neither raises nor reports failure).
C1_QuotaFallsBackToNext ==
    ( /\ last.op = "embed"
      /\ HasSuccessor(embedding_type)
      /\ last.outcome[embedding_type] = "quota"
      /\ last.outcome[Successor(embedding_type)] = "ok" )
    => last.result = Successor(embedding_type)

C1_Witness ==
    /\ last.op = "embed"
    /\ embedding_type = OPENAI
    /\ last.outcome[OPENAI] = "quota"
    /\ last.outcome[GEMINI] = "ok"
    /\ last.result = GEMINI

\* C2: for a selected provider that has a successor, a quota, rate-limit or
\* authentication failure of an embed call is retried on the later providers,
\* so the call does not report failure while a later provider succeeds.
C2_EveryFailureClassFallsBack ==
    ( /\ last.op = "embed"
      /\ HasSuccessor(embedding_type)
      /\ last.outcome[embedding_type] \in
            {"quota", "rate_limit", "too_many_requests", "auth"}
      /\ \E p \in ChainFrom(embedding_type) : last.outcome[p] = "ok" )
    => last.result # NoVector

\* the first provider in priority order that satisfies usable, NoProvider if none
FirstInOrder(usable(_)) ==
    IF usable(OPENAI) THEN OPENAI
    ELSE IF usable(GEMINI) THEN GEMINI
    ELSE IF usable(SENTENCE_TRANSFORMER) THEN SENTENCE_TRANSFORMER
    ELSE NoProvider

Prereq(p) ==
    IF p = OPENAI THEN OpenAIPrereq(env)
    ELSE IF p = GEMINI THEN GeminiPrereq(env)
    ELSE LocalPrereq(env)

\* prerequisites hold and the provider's test call did not report quota exhaustion
Qualifies(p) == Prereq(p) /\ ~(p \in testCalls /\ last.test = "quota")

\* prerequisites hold and the provider's own setup step went through
Usable(p) ==
    /\ Prereq(p)
    /\ p = OPENAI => last.test # "quota"
    /\ p = GEMINI => last.gcfg = "ok"
    /\ p = SENTENCE_TRANSFORMER => last.stload = "ok"

\* the except handler of _initialize_embedding_model selects Gemini on library
\* and key alone, use_gemini_fallback not consulted
GeminiForced ==
    /\ LocalPrereq(env) /\ last.stload = "raise"
    /\ env["GEMINI_AVAILABLE"] /\ env["gemini_api_key"] /\ last.gcfg = "ok"

\* C5 as stated: after construction the selected provider is the first in
\* priority order whose prerequisites hold, it received a test call before being
\* committed, a provider whose test call reported quota exhaustion is not left
\* selected, and none is selected when none qualifies.
C5_AsStated ==
    (last.op = "construct" /\ pc = "ready") =>
        /\ embedding_type = FirstInOrder(Qualifies)
        /\ embedding_type # NoProvider => embedding_type \in testCalls
        /\ ~(last.test = "quota" /\ embedding_type = OPENAI)

\* C5 amended: after construction the selected provider is the first in priority
\* order that is usable (prerequisites hold; OpenAI's test call did not report
\* quota exhaustion, Gemini's configure call and the local model's load went
\* through), with none selected when none is usable, except that Gemini is
\* selected on library and key alone when the local model fails to load; the
\* test call goes to OpenAI only, exactly when OpenAI's prerequisites hold; a
\* provider whose test call reported quota exhaustion is never left selected.
C5_SelectionAtConstruction ==
    (last.op = "construct" /\ pc = "ready") =>
        /\ embedding_type =
              IF FirstInOrder(Usable) # NoProvider THEN FirstInOrder(Usable)
              ELSE IF GeminiForced THEN GEMINI
              ELSE NoProvider
        /\ testCalls = IF OpenAIPrereq(env) THEN {OPENAI} ELSE {}
        /\ ~(last.test = "quota" /\ embedding_type = OPENAI)

C5_Witness ==
    /\ last.op = "construct"
    /\ pc = "ready"
    /\ last.test = "quota"
    /\ OPENAI \in testCalls
    /\ embedding_type = GEMINI

----------------------------------------------------------------------------
(* Claims about ingestion, deletion and search, checked under Spec *)

\* C3: the selected provider is set at construction and no later embed call,
\* whatever its outcome, changes it: every step taken after construction leaves
\* embedding_type as it was.
C3_SelectedProviderReadOnly ==
    [][pc = "ready" => embedding_type' = embedding_type]_vars

\* an ingestion under OpenAI in which one chunk was served by a fallback
\* provider and another failed on every provider
C3_Witness ==
    /\ last.op = "store"
    /\ embedding_type = OPENAI
    /\ last.failed # {}
    /\ \E e \in last.added : e.vec.provider \in {GEMINI, SENTENCE_TRANSFORMER}

\* C4: when every provider of the chain fails for a text, no vector is stored
\* in the index for that text by the ingestion, and no vector is used as the
\* query vector by the search.
C4_NoSubstituteVector ==
    /\ last.op = "store" =>
          \A k \in last.failed :
             ~\E e \in last.added : e.text = ChunkText(last.doc, k)
    /\ (last.op = "search" /\ last.embedAllFail) => last.queryVector = NoVector

C8_HybridLegsIsolated ==
    (last.op = "search" /\ last.search_type = "hybrid") =>
        /\ last.outcome = "returned"
        /\ (last.semanticFailed /\ ~last.lexicalFailed) =>
              last.results = {d \in DocIds : documents[d] = "active"
                                             /\ TextMatches(last.query, d)}

----------------------------------------------------------------------------
(* Claims about process_query, checked under SpecChat *)

\* the retrieval of a call of process_query failed: a search raised, or the
\* semantic leg of the scope search failed
RetrievalFailed ==
    \/ last.kind = "error"
    \/ last.scope_search.outcome = "returned" /\ last.scope_search.semanticFailed

\* C9: when retrieval fails or a step raises, process_query returns a response
\* whose scope is OUT_OF_SCOPE and whose confidence is 0.0.
C9_FailureIsOutOfScopeZero ==
    (last.op = "process" /\ RetrievalFailed) =>
        /\ last.outcome = "returned"
        /\ last.scope = OUT_OF_SCOPE
        /\ last.has_confidence
        /\ last.confidence = 0

\* C10: for an empty or whitespace-only query, query processing invokes neither
\* the domain/intent classifier nor the scope classifier.
C10_BlankQueryShortCircuits ==
    (last.op = "process" /\ last.query \in {"", " "}) =>
        /\ ~last.analyze_query_called
        /\ ~last.scope_analysis_called

----------------------------------------------------------------------------
(* The scope policies as functions of their inputs *)

\* result lists have at most MaxResults entries
MaxResults == 3

\* sequences over S of length at most n
SeqsUpTo(S, n) == UNION {[1..k -> S] : k \in 0..n}

\* semantic_score values of the documents of a result list, in thousandths
ScoreValues == {0, 400, 401, 700, 701, 710, 1000}

\* max([doc.get('semantic_score', 0) for doc in relevant_docs], default=0)
MaxSemanticScore(scores) ==
    IF scores = <<>> THEN 0
    ELSE CHOOSE m \in {scores[i] : i \in 1..Len(scores)} :
            \A i \in 1..Len(scores) : scores[i] <= m

\* the dict _analyze_query_scope_enhanced returns for a result list with these
\* semantic scores
ScopeDecision(scores) ==
    [scope |-> AnalyzeQueryScopeEnhanced({i : i \in 1..Len(scores)}, MaxSemanticScore(scores)),
     relevant_docs_count |-> Len(scores),
     max_semantic_score |-> MaxSemanticScore(scores)]

CLARIFICATION_NEEDED == "clarification_needed"

\* domain confidences, in thousandths
ConfidenceValues == {0, 299, 300, 301, 500, 700, 701, 1000}

LegacyClarifiesOnlyWithoutResults(confidence, count) ==
    IF confidence > 700 /\ count > 0 THEN IN_SCOPE
    ELSE IF confidence > 300 /\ count > 0 THEN PARTIAL_SCOPE
    ELSE IF confidence <= 300 THEN OUT_OF_SCOPE
    ELSE CLARIFICATION_NEEDED
\* _analyze_query_scope: the scope for a domain confidence and the number of
\* rows search_documents returned
AnalyzeQueryScope(confidence, count) ==
    IF confidence > 700 /\ count > 0 THEN IN_SCOPE
    ELSE IF confidence > 300 /\ count > 0 THEN PARTIAL_SCOPE
    ELSE IF confidence < 300 THEN OUT_OF_SCOPE
    ELSE CLARIFICATION_NEEDED

\* a call of _analyze_query_scope_enhanced on a result list
AnalyzeScopeEnhanced ==
    /\ last.op = "init"
    /\ \E scores \in SeqsUpTo(ScoreValues, MaxResults) :
         last' = [op |-> "scope_enhanced", scores |-> scores] @@ ScopeDecision(scores)
    /\ UNCHANGED <<store, conversation, env, pc, embedding_type, fallback_model, testCalls, documents,
                   collection, context_len>>

\* a call of _analyze_query_scope
AnalyzeScopeLegacy ==
    /\ last.op = "init"
    /\ \E confidence \in ConfidenceValues, count \in 0..MaxResults :
         last' = [op |-> "scope_legacy", confidence |-> confidence,
                  relevant_docs_count |-> count,
                  scope |-> AnalyzeQueryScope(confidence, count)]
    /\ UNCHANGED <<store, conversation, env, pc, embedding_type, fallback_model, testCalls, documents,
                   collection, context_len>>

NextScope == AnalyzeScopeEnhanced \/ AnalyzeScopeLegacy

SpecScope == Init /\ [][NextScope]_vars

\* C11: under the semantic-score policy a best score above 0.7 gives IN_SCOPE,
\* a best score in (0.4, 0.7] gives PARTIAL_SCOPE, a best score of at most 0.4
\* with results present gives PARTIAL_SCOPE, and CLARIFICATION_NEEDED is never
\* the outcome.
C11_SemanticScorePolicy ==
    last.op = "scope_enhanced" =>
        /\ last.max_semantic_score > 700 => last.scope = IN_SCOPE
        /\ (400 < last.max_semantic_score /\ last.max_semantic_score <= 700)
              => last.scope = PARTIAL_SCOPE
        /\ (last.max_semantic_score <= 400 /\ last.relevant_docs_count > 0)
              => last.scope = PARTIAL_SCOPE
        /\ last.scope # CLARIFICATION_NEEDED

\* a list whose best score is just above the upper threshold
C11_Witness ==
    /\ last.op = "scope_enhanced"
    /\ last.max_semantic_score = 710
    /\ last.relevant_docs_count > 1
    /\ last.scope = IN_SCOPE

\* C12: with no results the scope is OUT_OF_SCOPE and the reported
\* max_semantic_score is 0.
C12_NoResultsOutOfScope ==
    (last.op = "scope_enhanced" /\ last.relevant_docs_count = 0) =>
        /\ last.scope = OUT_OF_SCOPE
        /\ last.max_semantic_score = 0

C12_Witness ==
    /\ last.op = "scope_enhanced"
    /\ last.scores = <<>>
    /\ last.scope = OUT_OF_SCOPE

\* C13 as stated: under the legacy policy a confidence in the middle band with
\* results present gives CLARIFICATION_NEEDED, IN_SCOPE requires a confidence
\* above 0.7 with results present, and a confidence below the low threshold
\* gives OUT_OF_SCOPE.
C13_AsStated ==
    last.op = "scope_legacy" =>
        /\ (300 < last.confidence /\ last.confidence <= 700
              /\ last.relevant_docs_count > 0) => last.scope = CLARIFICATION_NEEDED
        /\ last.scope = IN_SCOPE =>
              (last.confidence > 700 /\ last.relevant_docs_count > 0)
        /\ last.confidence < 300 => last.scope = OUT_OF_SCOPE

\* C13 amended: under the legacy policy CLARIFICATION_NEEDED is returned exactly
\* when the confidence is at least 0.3 and either no results are present or the
\* confidence is exactly 0.3; a confidence in (0.3, 0.7] with results present
\* gives PARTIAL_SCOPE; IN_SCOPE is returned exactly for a confidence above 0.7
\* with results present, and OUT_OF_SCOPE exactly for a confidence below 0.3.
C13_LegacyPolicy ==
    last.op = "scope_legacy" =>
        /\ last.scope = CLARIFICATION_NEEDED <=>
              (last.confidence >= 300
               /\ (last.relevant_docs_count = 0 \/ last.confidence = 300))
        /\ (300 < last.confidence /\ last.confidence <= 700
              /\ last.relevant_docs_count > 0) => last.scope = PARTIAL_SCOPE
        /\ last.scope = IN_SCOPE <=>
              (last.confidence > 700 /\ last.relevant_docs_count > 0)
        /\ last.scope = OUT_OF_SCOPE <=> last.confidence < 300

\* a confidence in the middle band without results
C13_Witness ==
    /\ last.op = "scope_legacy"
    /\ last.confidence = 500
    /\ last.relevant_docs_count = 0
    /\ last.scope = CLARIFICATION_NEEDED

----------------------------------------------------------------------------
(* Hybrid fusion and the ranking of SearchEngine.search *)

\* Result rows are [id, score]: score is the row's relevance_score (lexical
\* rows) or semantic_score (semantic rows), in thousandths.  Final scores are
\* in units of 0.00001.  A leg lists a document at most once: the lexical rows
\* are rows of the documents table, the semantic rows are grouped by document.
LexicalScores == {0, 500}
SemanticRowScores == {500, 800}

Ids(rows) == {rows[i].id : i \in 1..Len(rows)}

ResultLists(scores) ==
    {rows \in SeqsUpTo([id : DocIds, score : scores], MaxDoc) :
        \A i, j \in 1..Len(rows) : rows[i].id = rows[j].id => i = j}

\* _add_search_type
AddSearchType(rows, search_type) ==
    [i \in 1..Len(rows) |-> [id |-> rows[i].id, score |-> rows[i].score,
                             search_type |-> search_type]]

\* the weights and the bonus of _combine_hybrid_results, in tenths
fulltext_weight == 4
semantic_weight == 6
BonusBoth == 12
BonusOne == 10

\* _combine_hybrid_results, the grouping loop: order lists the ids in order of
\* first appearance, docs maps each to its scores and search types
RECURSIVE CombineLoop(_, _, _, _)
CombineLoop(results, i, order, docs) ==
    IF i > Len(results) THEN [order |-> order, docs |-> docs]
    ELSE LET r == results[i]
             seen == \E k \in 1..Len(order) : order[k] = r.id
             old == IF seen THEN docs[r.id]
                    ELSE [fulltext_score |-> 0, semantic_score |-> 0, search_types |-> {}]
             new == IF r.search_type = "fulltext"
                    THEN [old EXCEPT !.fulltext_score = r.score,
                                     !.search_types = @ \cup {"fulltext"}]
                    ELSE IF r.search_type = "semantic"
                    THEN [old EXCEPT !.semantic_score = r.score,
                                     !.search_types = @ \cup {"semantic"}]
                    ELSE old
         IN  CombineLoop(results, i + 1,
                         IF seen THEN order ELSE Append(order, r.id),
                         [docs EXCEPT ![r.id] = new])

BonusAlways(search_types) == BonusBoth
BonusNever(search_types) == BonusOne
\* multi_type_bonus
MultiTypeBonus(search_types) ==
    IF Cardinality(search_types) > 1 THEN BonusBoth ELSE BonusOne

\* hybrid_score
HybridScore(doc) ==
    (doc.fulltext_score * fulltext_weight + doc.semantic_score * semantic_weight)
        * MultiTypeBonus(doc.search_types)

\* _combine_hybrid_results
CombineHybridResults(results) ==
    LET g == CombineLoop(results, 1, <<>>,
                         [d \in DocIds |-> [fulltext_score |-> 0, semantic_score |-> 0,
                                            search_types |-> {}]])
    IN  [k \in 1..Len(g.order) |->
            [id |-> g.order[k],
             fulltext_score |-> g.docs[g.order[k]].fulltext_score,
             semantic_score |-> g.docs[g.order[k]].semantic_score,
             search_types |-> g.docs[g.order[k]].search_types,
             final_score |-> HybridScore(g.docs[g.order[k]])]]

\* title, content and quality part of _calculate_relevance_scores for the
\* query, in units of 0.0001: document 1 matches in its title (0.4 * 1.0),
\* every document has the base quality (0.1 * 0.5)
TextComponent(d) == IF d = 1 THEN 4500 ELSE 500

\* _calculate_relevance_scores: rows are scored one by one
CalculateRelevanceScores(results) ==
    [k \in 1..Len(results) |->
        [id |-> results[k].id,
         fulltext_score |-> 0, semantic_score |-> 0,
         search_types |-> {results[k].search_type},
         final_score |-> (results[k].score * 3 + TextComponent(results[k].id)) * 10]]

\* list.sort is stable: x goes after every entry whose key is at least its own
InsertDescending(sorted, x) ==
    LET n == Cardinality({i \in 1..Len(sorted) : sorted[i].final_score >= x.final_score})
    IN  SubSeq(sorted, 1, n) \o <<x>> \o SubSeq(sorted, n + 1, Len(sorted))

InsertAscending(sorted, x) ==
    LET n == Cardinality({i \in 1..Len(sorted) : sorted[i].final_score <= x.final_score})
    IN  SubSeq(sorted, 1, n) \o <<x>> \o SubSeq(sorted, n + 1, Len(sorted))

RECURSIVE SortAscending(_)
SortAscending(rows) ==
    IF rows = <<>> THEN <<>>
    ELSE InsertAscending(SortAscending(SubSeq(rows, 1, Len(rows) - 1)), rows[Len(rows)])
\* results.sort(key=final_score, reverse=True)
RECURSIVE SortByFinalScore(_)
SortByFinalScore(rows) ==
    IF rows = <<>> THEN <<>>
    ELSE InsertDescending(SortByFinalScore(SubSeq(rows, 1, Len(rows) - 1)), rows[Len(rows)])

\* the seen_docs loop: the first row of each document id
RECURSIVE UniqueResults(_)
UniqueResults(rows) ==
    IF rows = <<>> THEN <<>>
    ELSE LET init == UniqueResults(SubSeq(rows, 1, Len(rows) - 1))
             x == rows[Len(rows)]
         IN  IF x.id \in Ids(init) THEN init ELSE Append(init, x)

\* unique_results[:max_results]
Truncate(rows, max_results) ==
    SubSeq(rows, 1, IF Len(rows) < max_results THEN Len(rows) ELSE max_results)

\* the rows search scores, from the rows of its two legs
ScoredResults(L, S, search_type) ==
    LET results ==
            (IF search_type \in {"hybrid", "fulltext"}
             THEN AddSearchType(L, "fulltext") ELSE <<>>)
            \o (IF search_type \in {"hybrid", "semantic"}
                THEN AddSearchType(S, "semantic") ELSE <<>>)
    IN  IF search_type = "hybrid" /\ results # <<>>
        THEN CombineHybridResults(results)
        ELSE CalculateRelevanceScores(results)

\* search, lines 42-61: the list returned for the rows of the two legs
RankResults(L, S, search_type, max_results) ==
    Truncate(UniqueResults(SortByFinalScore(ScoredResults(L, S, search_type))), max_results)

\* the state of InitWith with a call pending, its arguments in last
InitCall(calls) ==
    /\ env \in MainEnvs
    /\ pc = "new"
    /\ embedding_type = NoProvider
    /\ fallback_model = FALSE
    /\ testCalls = {}
    /\ documents = NoDocuments
    /\ collection = {}
    /\ context_len = 0
    /\ last \in calls
    /\ StoreUnused
    /\ ConversationUnused

\* the calls of search by the rows L and S its legs return
RankCalls ==
    [op : {"rank_call"}, L : ResultLists(LexicalScores), S : ResultLists(SemanticRowScores),
     search_type : SearchTypes, max_results : 1..MaxResults]

\* the pending call of search ranks the rows of its legs and returns
RankSearch ==
    /\ last.op = "rank_call"
    /\ last' = [op |-> "rank", L |-> last.L, S |-> last.S,
                search_type |-> last.search_type, max_results |-> last.max_results,
                fused |-> ScoredResults(last.L, last.S, last.search_type),
                ranking |-> RankResults(last.L, last.S, last.search_type,
                                        last.max_results)]
    /\ UNCHANGED <<store, conversation, env, pc, embedding_type, fallback_model, testCalls, documents,
                   collection, context_len>>

InitRank == InitCall(RankCalls)

NextRank == RankSearch

SpecRank == InitRank /\ [][NextRank]_vars

\* the score of document d in a leg's rows, 0 when it is not listed
ScoreIn(rows, d) ==
    IF d \in Ids(rows) THEN rows[CHOOSE i \in 1..Len(rows) : rows[i].id = d].score
    ELSE 0

\* C14: in a hybrid search every document of either leg is in the fused list
\* once, with final_score = (lexical_score * 0.4 + semantic_score * 0.6) * bonus,
\* a score being 0 for a leg that does not list the document and the bonus
\* being 1.2 exactly when both legs list it, 1.0 otherwise.
C14_FusionScore ==
    (last.op = "rank" /\ last.search_type = "hybrid") =>
        /\ Ids(last.fused) = Ids(last.L) \cup Ids(last.S)
        /\ \A i \in 1..Len(last.fused) :
              LET r == last.fused[i]
                  both == r.id \in Ids(last.L) /\ r.id \in Ids(last.S)
              IN  r.final_score =
                    (ScoreIn(last.L, r.id) * 4 + ScoreIn(last.S, r.id) * 6)
                        * (IF both THEN 12 ELSE 10)

\* a fusion in which one document is in both legs and another in one
C14_Witness ==
    /\ last.op = "rank"
    /\ last.search_type = "hybrid"
    /\ \E i, j \in 1..Len(last.fused) :
          /\ Cardinality(last.fused[i].search_types) = 2
          /\ Cardinality(last.fused[j].search_types) = 1
          /\ last.fused[i].fulltext_score > 0

\* C15: the list search returns is sorted by final_score in non-increasing
\* order, lists each document id at most once and has at most max_results
\* entries.
C15_SortedUniqueTruncated ==
    last.op = "rank" =>
        /\ \A i, j \in 1..Len(last.ranking) :
              i < j => last.ranking[i].final_score >= last.ranking[j].final_score
        /\ \A i, j \in 1..Len(last.ranking) :
              last.ranking[i].id = last.ranking[j].id => i = j
        /\ Len(last.ranking) <= last.max_results

\* a search that ranked more documents than it may return, with differing scores
C15_Witness ==
    /\ last.op = "rank"
    /\ Len(last.fused) > last.max_results
    /\ Len(last.ranking) = last.max_results
    /\ \E i, j \in 1..Len(last.fused) :
          i < j /\ last.fused[i].final_score < last.fused[j].final_score

\* the reorderings of a leg's rows
Reorderings(rows) ==
    {p \in [1..Len(rows) -> {rows[i] : i \in 1..Len(rows)}] :
        \A i \in 1..Len(rows) : \E j \in 1..Len(rows) : p[j] = rows[i]}

\* C16: reordering the rows of the lexical and of the semantic leg leaves the
\* list a hybrid search returns unchanged, ranking and scores.
C16_FusionOrderIndependent ==
    (last.op = "rank" /\ last.search_type = "hybrid") =>
        \A L2 \in Reorderings(last.L), S2 \in Reorderings(last.S) :
            RankResults(L2, S2, "hybrid", last.max_results) = last.ranking

\* C17: in a hybrid search a document listed by both legs has a strictly higher
\* final score than a document with the same lexical and semantic scores that
\* only one leg lists, and wherever the latter is returned the former is
\* returned before it.
C17_BothLegsOutrank ==
    (last.op = "rank" /\ last.search_type = "hybrid") =>
        \A i, j \in 1..Len(last.fused) :
            LET a == last.fused[i]
                b == last.fused[j]
            IN  ( /\ Cardinality(a.search_types) = 2
                  /\ Cardinality(b.search_types) = 1
                  /\ a.fulltext_score = b.fulltext_score
                  /\ a.semantic_score = b.semantic_score )
                => /\ a.final_score > b.final_score
                   /\ \A n \in 1..Len(last.ranking) :
                         last.ranking[n].id = b.id =>
                            \E m \in 1..(n - 1) : last.ranking[m].id = a.id

\* both documents are returned: one listed by both legs, one by the semantic
\* leg alone with the same scores
C17_Witness ==
    /\ last.op = "rank"
    /\ last.search_type = "hybrid"
    /\ Len(last.ranking) = 2
    /\ \E i, j \in 1..Len(last.fused) :
          /\ Cardinality(last.fused[i].search_types) = 2
          /\ Cardinality(last.fused[j].search_types) = 1
          /\ last.fused[i].fulltext_score = last.fused[j].fulltext_score
          /\ last.fused[i].semantic_score = last.fused[j].semantic_score
          /\ last.ranking[1].id = last.fused[i].id
          /\ last.ranking[2].id = last.fused[j].id

(* The response confidence on arbitrary scores *)

\* scores and intent confidences in thousandths, negative and above 1.0 included
ConfidenceScores == {-2000, 0, 600, 3000}
IntentConfidences == {-4000, 500, 5000}

\* the calls of _calculate_response_confidence
ConfidenceCalls ==
    [op : {"confidence_call"}, scores : SeqsUpTo(ConfidenceScores, MaxResults),
     intent_confidence : IntentConfidences]

\* the pending call of _calculate_response_confidence returns
CalculateConfidence ==
    /\ last.op = "confidence_call"
    /\ last' = [op |-> "confidence", scores |-> last.scores,
                intent_confidence |-> last.intent_confidence,
                raw |-> IF last.scores = <<>> THEN [num |-> 0, den |-> 1]
                        ELSE CombineFactors(last.scores, last.intent_confidence),
                confidence |-> ResponseConfidence(last.scores, last.intent_confidence)]
    /\ UNCHANGED <<store, conversation, env, pc, embedding_type, fallback_model, testCalls, documents,
                   collection, context_len>>

InitConfidence == InitCall(ConfidenceCalls)

NextConfidence == CalculateConfidence

SpecConfidence == InitConfidence /\ [][NextConfidence]_vars

\* C18: the confidence _calculate_response_confidence returns lies in [0, 1]
\* whatever the result scores and the intent confidence, negative and
\* out-of-range values included, and is exactly 0 for an empty result list.
C18_ConfidenceInUnitInterval ==
    last.op = "confidence" =>
        /\ last.confidence.den > 0
        /\ 0 <= last.confidence.num
        /\ last.confidence.num <= 1000 * last.confidence.den
        /\ last.scores = <<>> => last.confidence.num = 0

\* a call whose weighted sum lies outside [0, 1]
C18_Witness ==
    /\ last.op = "confidence"
    /\ last.scores # <<>>
    /\ \/ last.raw.num < 0
       \/ last.raw.num > 1000 * last.raw.den

(* The chunker on arbitrary titles and bodies *)

MaxParas == 4

\* A body is the sequence of the segments content.split gives; a segment is
\* given by the length of its text after strip, 0 for a segment that is empty
\* or blank.  600 is a paragraph longer than chunk_size.
SegmentLengths == {0, 200, 300, 600}
Titles == {"", " ", "Title"}

\* [p.strip() for p in content.split if p.strip()]: the indices of the
\* segments kept as paragraphs, in order
RECURSIVE KeptSegments(_, _)
KeptSegments(body, i) ==
    IF i > Len(body) THEN <<>>
    ELSE IF body[i] # 0 THEN <<i>> \o KeptSegments(body, i + 1)
         ELSE KeptSegments(body, i + 1)

\* the lengths of the paragraphs of a body
Paragraphs(body) ==
    LET kept == KeptSegments(body, 1)
    IN  [k \in 1..Len(kept) |-> body[kept[k]]]

\* the calls of _split_into_chunks
ChunkCalls ==
    [op : {"chunk_call"}, title : Titles, body : SeqsUpTo(SegmentLengths, MaxParas)]

\* the pending call of _split_into_chunks returns
SplitDocument ==
    /\ last.op = "chunk_call"
    /\ last' = [op |-> "chunk", title |-> last.title, body |-> last.body,
                chunks |-> SplitIntoChunks(Paragraphs(last.body), Strip(last.title) # "")]
    /\ UNCHANGED <<store, conversation, env, pc, embedding_type, fallback_model, testCalls, documents,
                   collection, context_len>>

InitChunk == InitCall(ChunkCalls)

NextChunk == SplitDocument

SpecChunk == InitChunk /\ [][NextChunk]_vars

\* C19: the chunks of any title and body have the positions 0, 1, 2, ... in
\* the order they are emitted, and only the first chunk can be of type title,
\* every other chunk being of type content.
C19_PositionsContiguous ==
    last.op = "chunk" =>
        \A k \in 1..Len(last.chunks) :
            /\ last.chunks[k].position = k - 1
            /\ last.chunks[k].type \in {"title", "content"}
            /\ last.chunks[k].type = "title" => k = 1
            /\ k > 1 => last.chunks[k].type = "content"

\* a titled document whose body is split into more than one content chunk
C19_Witness ==
    /\ last.op = "chunk"
    /\ Len(last.chunks) >= 3
    /\ last.chunks[1].type = "title"

\* the paragraphs of the content chunks, concatenated in position order
RECURSIVE JoinContent(_, _)
JoinContent(chunks, k) ==
    IF k > Len(chunks) THEN <<>>
    ELSE IF chunks[k].type = "content"
         THEN chunks[k].text.paras \o JoinContent(chunks, k + 1)
         ELSE JoinContent(chunks, k + 1)

\* C20: joining the content chunks of a body in position order gives the
\* non-blank paragraphs of the body in their order, each one whole and exactly
\* once; no content chunk is empty.
C20_RoundTrip ==
    last.op = "chunk" =>
        /\ JoinContent(last.chunks, 1) =
              [k \in 1..Len(Paragraphs(last.body)) |-> k]
        /\ \A k \in 1..Len(last.chunks) :
              last.chunks[k].type = "content" => last.chunks[k].text.paras # <<>>

\* a body with a blank segment, split into several content chunks of which
\* one holds two paragraphs
C20_Witness ==
    /\ last.op = "chunk"
    /\ \E i \in 1..Len(last.body) : last.body[i] = 0
    /\ \E j, k \in 1..Len(last.chunks) :
          /\ j # k
          /\ last.chunks[j].type = "content"
          /\ last.chunks[k].type = "content"
          /\ Len(last.chunks[k].text.paras) = 2

(* Intent classification on arbitrary queries *)

MaxMatched == 2

Intents == {IntentOrder[i] : i \in 1..Len(IntentOrder)}
AllPatterns == UNION {IntentPatterns[i] : i \in Intents}

\* A query is given by the patterns that are substrings of its lowercase form.
\* No pattern is a substring of another, so every set of patterns is the set
\* some query contains.
RECURSIVE SubsetsUpTo(_, _)
SubsetsUpTo(S, n) ==
    IF n = 0 THEN {{}}
    ELSE LET smaller == SubsetsUpTo(S, n - 1)
         IN  smaller \cup {m \cup {x} : m \in smaller, x \in S}

IntentCalls ==
    [op : {"intent_call"}, matched : SubsetsUpTo(AllPatterns, MaxMatched)]

\* the pending call of classify_intent returns
ClassifyQuery ==
    /\ last.op = "intent_call"
    /\ last' = [op |-> "intent", matched |-> last.matched]
                    @@ ClassifyMatched(last.matched)
    /\ UNCHANGED <<store, conversation, env, pc, embedding_type, fallback_model, testCalls, documents,
                   collection, context_len>>

InitIntent == InitCall(IntentCalls)

NextIntent == ClassifyQuery

SpecIntent == InitIntent /\ [][NextIntent]_vars

\* the number of patterns of an intent among the matched ones
Hits(matched, intent) == Cardinality(IntentPatterns[intent] \cap matched)

\* C21: a query that contains a phrase of some intent is classified with an
\* intent of the highest matched fraction, with that fraction, which is above
\* 0, as its confidence; a query that contains no phrase of any intent is
\* classified factual with confidence 0.5.
C21_IntentClassification ==
    last.op = "intent" =>
        IF last.matched = {}
        THEN last.intent = "factual" /\ last.intent_confidence = 500
        ELSE /\ last.intent_confidence > 0
             /\ last.intent_confidence =
                    (Hits(last.matched, last.intent) * 1000)
                        \div Cardinality(IntentPatterns[last.intent])
             /\ \A i \in Intents :
                    Hits(last.matched, i) * Cardinality(IntentPatterns[last.intent])
                        <= Hits(last.matched, last.intent)
                               * Cardinality(IntentPatterns[i])

\* a query with "compare" and a phrase of a shorter list: how_to has the
\* higher fraction
C21_Witness ==
    /\ last.op = "intent"
    /\ last.matched = {"compare", "how to"}
    /\ last.intent = "how_to"

----------------------------------------------------------------------------
(* StorageManager.store_document and delete_document on the documents table *)

MaxRows == 2

\* everything but the document store
rest == <<env, pc, embedding_type, fallback_model, testCalls, documents, collection,
          context_len, last, conversation>>

\* A validated document is given by its normalized url and the sha256 of its
\* content.
Urls == {"u1", "u2"}
Hashes == {"h1", "h2"}
Docs == [url : Urls, content_hash : Hashes]

\* the UNIQUE columns of the documents table
UniqueColumns == {"url", "content_hash"}

\* the ids of the rows in the table; a hard-deleted row is "removed"
Present(t) == {i \in 1..Len(t) : t[i].status # "removed"}

\* results[0] if results else None, with 0 for None
First(S) == IF S = {} THEN 0 ELSE CHOOSE i \in S : \A j \in S : i <= j

\* SELECT * FROM documents WHERE <column> = ? AND status = ?
RowWith(t, column, value, status) ==
    First({i \in Present(t) : t[i][column] = value /\ t[i].status = status})

CheckDuplicate(t, content_hash) == RowWith(t, "content_hash", content_hash, "active")
CheckUrlDuplicate(t, url) == RowWith(t, "url", url, "active")

\* _check_deleted_duplicate or _check_deleted_url_duplicate, by the column the
\* error names
CheckDeleted(t, column, doc) == RowWith(t, column, doc[column], "deleted")

\* _check_duplicate or _check_url_duplicate, by the column the error names
CheckExisting(t, column, doc) == RowWith(t, column, doc[column], "active")

\* the UNIQUE columns on which the row to insert collides with a row
Violated(t, doc) ==
    {c \in UniqueColumns : \E i \in Present(t) : t[i][c] = doc[c]}

\* the column in "UNIQUE constraint failed: documents.<column>"
ConstraintFailed(t, doc, first) ==
    IF first \in Violated(t, doc) THEN first
    ELSE CHOOSE c \in Violated(t, doc) : TRUE

\* what store_document returns: success, message, id (0 for None)
ValidationFailed == [success |-> FALSE, message |-> "Validation failed", id |-> 0]
AlreadyExists(id) == [success |-> TRUE, message |-> "Document already exists", id |-> id]
StoredSuccessfully(id) ==
    [success |-> TRUE, message |-> "Document stored successfully", id |-> id]
Reactivated(id) == [success |-> TRUE, message |-> "Document reactivated", id |-> id]
ConstraintError == [success |-> FALSE, message |-> "Database constraint error", id |-> 0]

\* a failed insert that ends in the constraint error although the row exists
FailsAfterRace(id) == ConstraintError
\* the return after a failed insert when the row is found active
ExistsAfterRace(id) == AlreadyExists(id)

\* the UPDATE of _reactivate_document: url and the content fields are set,
\* content_hash is not, status becomes active
ReactivatedRow(row, doc) == [row EXCEPT !.url = doc.url, !.status = "active"]

\* _reactivate_document: False when no row is affected or the new url collides
\* with another row
ReactivateDocument(t, id, doc) ==
    LET ok == /\ id \in Present(t)
              /\ ~\E j \in Present(t) \ {id} : t[j].url = doc.url
    IN  [ok |-> ok,
         table |-> IF ok THEN [t EXCEPT ![id] = ReactivatedRow(t[id], doc)] ELSE t]

\* a call returns r; the history keeps under which id a document was written
Return(p, r) ==
    /\ proc' = [proc EXCEPT ![p] = [@ EXCEPT !.pc = "done", !.result = r]]
    /\ history' = IF r.success /\ r.message # "Document already exists"
                  THEN [history EXCEPT !.stored = @ \cup {[doc |-> proc[p].doc, id |-> r.id]}]
                  ELSE history

Goto(p, label) ==
    /\ proc' = [proc EXCEPT ![p] = [@ EXCEPT !.pc = label]]
    /\ UNCHANGED history

\* store_document is called: validation
Begin(p) ==
    /\ proc[p].pc \in {"idle", "done"}
    /\ \E doc \in Docs, valid \in BOOLEAN :
         LET call == [pc |-> "check_content", doc |-> doc, valid |-> valid,
                      before |-> doc_rows,
                      cycled |-> {e.id : e \in {c \in history.cycled : c.doc = doc}},
                      error |-> "none", target |-> 0, raced |-> FALSE,
                      result |-> ValidationFailed]
         IN  proc' = [proc EXCEPT ![p] = IF valid THEN call
                                         ELSE [call EXCEPT !.pc = "done"]]
    /\ UNCHANGED <<doc_rows, unique_first, history, rest>>

\* _check_duplicate
CheckContent(p) ==
    /\ proc[p].pc = "check_content"
    /\ LET e == CheckDuplicate(doc_rows, proc[p].doc.content_hash)
       IN  IF e # 0 THEN Return(p, AlreadyExists(e)) ELSE Goto(p, "check_url")
    /\ UNCHANGED <<doc_rows, unique_first, rest>>

\* _check_url_duplicate
CheckUrl(p) ==
    /\ proc[p].pc = "check_url"
    /\ LET e == CheckUrlDuplicate(doc_rows, proc[p].doc.url)
       IN  IF e # 0 THEN Return(p, AlreadyExists(e)) ELSE Goto(p, "insert")
    /\ UNCHANGED <<doc_rows, unique_first, rest>>

\* _insert_document: a new active row, or an IntegrityError
Insert(p) ==
    /\ proc[p].pc = "insert"
    /\ LET doc == proc[p].doc
           raced == \E q \in Callers \ {p} :
                        proc[q].pc = "insert" /\ proc[q].doc = doc
       IN  IF Violated(doc_rows, doc) = {}
           THEN /\ Len(doc_rows) < MaxRows
                /\ doc_rows' = Append(doc_rows, [url |-> doc.url,
                                                 content_hash |-> doc.content_hash,
                                                 status |-> "active"])
                /\ proc' = [proc EXCEPT ![p] =
                              [@ EXCEPT !.pc = "done", !.raced = raced,
                                        !.result = StoredSuccessfully(Len(doc_rows) + 1)]]
                /\ history' = [history EXCEPT !.stored =
                                 @ \cup {[doc |-> doc, id |-> Len(doc_rows) + 1]}]
           ELSE /\ proc' = [proc EXCEPT ![p] =
                              [@ EXCEPT !.pc = "find_deleted", !.raced = raced,
                                        !.error = ConstraintFailed(doc_rows, doc,
                                                                   unique_first)]]
                /\ UNCHANGED <<doc_rows, history>>
    /\ UNCHANGED <<unique_first, rest>>

\* the handler looks for a deleted row by the column of the error
FindDeleted(p) ==
    /\ proc[p].pc = "find_deleted"
    /\ LET e == CheckDeleted(doc_rows, proc[p].error, proc[p].doc)
       IN  proc' = [proc EXCEPT ![p] =
                      [@ EXCEPT !.pc = IF e # 0 THEN "reactivate" ELSE "find_existing",
                                !.target = e]]
    /\ UNCHANGED <<doc_rows, unique_first, history, rest>>

\* _reactivate_document on the deleted row that was found
Reactivate(p) ==
    /\ proc[p].pc = "reactivate"
    /\ LET r == ReactivateDocument(doc_rows, proc[p].target, proc[p].doc)
       IN  /\ doc_rows' = r.table
           /\ IF r.ok THEN Return(p, Reactivated(proc[p].target))
              ELSE Goto(p, "find_existing")
    /\ UNCHANGED <<unique_first, rest>>

\* the handler looks for an active row by the column of the error
FindExisting(p) ==
    /\ proc[p].pc = "find_existing"
    /\ LET e == CheckExisting(doc_rows, proc[p].error, proc[p].doc)
       IN  IF e # 0 THEN Return(p, ExistsAfterRace(e)) ELSE Goto(p, "broad_search")
    /\ UNCHANGED <<doc_rows, unique_first, rest>>

\* the search for any row of the content hash, and the reactivation of the
\* first deleted one
BroadSearch(p) ==
    /\ proc[p].pc = "broad_search"
    /\ LET e == CheckDeleted(doc_rows, "content_hash", proc[p].doc)
           r == ReactivateDocument(doc_rows, e, proc[p].doc)
       IN  IF e # 0 /\ r.ok
           THEN doc_rows' = r.table /\ Return(p, Reactivated(e))
           ELSE UNCHANGED doc_rows /\ Return(p, ConstraintError)
    /\ UNCHANGED <<unique_first, rest>>

\* one step of a store_document call
StoreStep(p) ==
    \/ CheckContent(p)
    \/ CheckUrl(p)
    \/ Insert(p)
    \/ FindDeleted(p)
    \/ Reactivate(p)
    \/ FindExisting(p)
    \/ BroadSearch(p)

\* StorageManager.delete_document on the table, between calls of store_document
DeleteRow ==
    /\ \A p \in Callers : proc[p].pc \in {"idle", "done"}
    /\ \E id \in 1..MaxRows, soft_delete \in BOOLEAN :
         LET found == id \in Present(doc_rows)
         IN  /\ doc_rows' = IF found
                            THEN [doc_rows EXCEPT ![id].status =
                                     IF soft_delete THEN "deleted" ELSE "removed"]
                            ELSE doc_rows
             /\ history' =
                  IF ~found THEN history
                  ELSE IF soft_delete
                       THEN [history EXCEPT !.cycled =
                               @ \cup {e \in history.stored : e.id = id}]
                       ELSE [stored |-> {e \in history.stored : e.id # id},
                             cycled |-> {e \in history.cycled : e.id # id}]
    /\ proc' = [p \in Callers |-> NoCall]
    /\ UNCHANGED <<unique_first, rest>>

\* the engine of InitWith, with a table whose schema lists either column first
InitTable(tables) ==
    /\ env \in MainEnvs
    /\ pc = "new"
    /\ embedding_type = NoProvider
    /\ fallback_model = FALSE
    /\ testCalls = {}
    /\ documents = NoDocuments
    /\ collection = {}
    /\ context_len = 0
    /\ last = [op |-> "init"]
    /\ doc_rows \in tables
    /\ unique_first \in UniqueColumns
    /\ proc = [p \in Callers |-> NoCall]
    /\ history = [stored |-> {}, cycled |-> {}]
    /\ ConversationUnused

\* one caller: calls of store_document and delete_document one after another
InitStore == InitTable({<<>>})

NextStore == Begin(1) \/ StoreStep(1) \/ DeleteRow

SpecStore == InitStore /\ [][NextStore]_vars

\* two callers, one call each, on an empty table or one with a deleted row
RaceTables ==
    {<<>>} \cup {<<[url |-> d.url, content_hash |-> d.content_hash,
                    status |-> "deleted"]>> : d \in Docs}

BeginOnce(p) == proc[p].pc = "idle" /\ Begin(p)

InitRace == InitTable(RaceTables)

NextRace == \E p \in Callers : BeginOnce(p) \/ StoreStep(p)

SpecRace == InitRace /\ [][NextRace]_vars

\* a finished call of store_document by the single caller, for a valid document
StoreReturned == proc[1].pc = "done" /\ proc[1].valid

\* the row that holds the document of the call when the call started, 0 if none
RowOfDoc(status) ==
    First({i \in Present(proc[1].before) :
              /\ proc[1].before[i].url = proc[1].doc.url
              /\ proc[1].before[i].content_hash = proc[1].doc.content_hash
              /\ proc[1].before[i].status = status})

\* C22: once store_document(d) has stored or reactivated d under id
\* i and the soft delete of i has succeeded, every later store_document(d)
\* succeeds, returns i and leaves row i active.
C22_ReaddReactivates ==
    StoreReturned =>
        \A i \in proc[1].cycled :
            /\ proc[1].result.success
            /\ proc[1].result.id = i
            /\ doc_rows[i].status = "active"

\* What holds of the cycle: when the soft-deleted row i holds the URL and the
\* content hash of d, store_document(d) succeeds, returns i, leaves row i active
\* with the same URL and content hash, and adds no row.
ReactivatesSameRow ==
    (StoreReturned /\ RowOfDoc("deleted") # 0) =>
        LET i == RowOfDoc("deleted")
        IN  /\ proc[1].result = Reactivated(i)
            /\ doc_rows[i] = [url |-> proc[1].doc.url,
                              content_hash |-> proc[1].doc.content_hash,
                              status |-> "active"]
            /\ Len(doc_rows) = Len(proc[1].before)
            /\ \A j \in 1..Len(doc_rows) : j # i => doc_rows[j] = proc[1].before[j]

\* a document that was stored under id i and soft-deleted is added again while
\* another row is in the table
ReactivatesSameRowCase ==
    /\ StoreReturned
    /\ RowOfDoc("deleted") # 0
    /\ RowOfDoc("deleted") \in proc[1].cycled
    /\ Len(doc_rows) = 2
    /\ proc[1].result.message = "Document reactivated"

\* C23: storing a document identical to an active stored document stores
\* nothing and returns success = False with a message that says the document
\* already exists.
C23_DuplicateRejected ==
    (StoreReturned /\ RowOfDoc("active") # 0) =>
        /\ doc_rows = proc[1].before
        /\ ~proc[1].result.success
        /\ proc[1].result.message = "Document already exists"

\* C25: when two calls of store_document for the same document have both
\* passed the duplicate checks before either inserts, both return success with
\* the same id and one row holds the document.
C25_RaceOneRow ==
    ( /\ \A p \in Callers : proc[p].pc = "done" /\ proc[p].valid
      /\ proc[1].doc = proc[2].doc
      /\ \E p \in Callers : proc[p].raced )
    => /\ proc[1].result.success
       /\ proc[2].result.success
       /\ proc[1].result.id = proc[2].result.id
       /\ proc[1].result.id \in Present(doc_rows)
       /\ doc_rows[proc[1].result.id].status = "active"
       /\ Cardinality({i \in Present(doc_rows) :
                          \/ doc_rows[i].url = proc[1].doc.url
                          \/ doc_rows[i].content_hash = proc[1].doc.content_hash}) = 1

\* both callers passed the checks on an empty table, one inserted and the other
\* got the IntegrityError
C25_Witness ==
    /\ \A p \in Callers : proc[p].pc = "done" /\ proc[p].valid
    /\ proc[1].doc = proc[2].doc
    /\ proc[1].raced
    /\ proc[1].result.message = "Document stored successfully"
    /\ proc[2].error # "none"
    /\ proc[2].result.message = "Document already exists"

\* C24: every vector the collection holds under a chunk of a document was
\* computed from the text of that chunk, also when the embed call of another
\* chunk of the document failed.
C24_VectorOfItsChunk ==
    \A e \in collection : e.vec.text = e.text


\* the length of the text of chunk k of a body: its paragraphs joined by
\* blank lines
ChunkLen(body, chunks, k) == BufferLen(Paragraphs(body), chunks[k].text.paras)

\* C26: every content chunk that holds two or more paragraphs is at most
\* chunk_size characters long, the blank-line separators included; only a
\* chunk made of a single paragraph may be longer.
C26_ChunkSizeBound ==
    last.op = "chunk" =>
        \A k \in 1..Len(last.chunks) :
            (last.chunks[k].type = "content" /\ Len(last.chunks[k].text.paras) >= 2)
                => ChunkLen(last.body, last.chunks, k) <= chunk_size


(* The scores of the two legs of a hybrid search *)

MaxChunks == 3
MaxPosition == 1

\* chroma distances of the chunks found; a distance is not negative
Distances == {0, 1, 3}

\* similarity = 1.0 / (1.0 + distance), in units of 1/1440
Similarity(distance) == 1440 \div (1 + distance)

\* the chunks search_similar_chunks returns
SimilarChunks == [document_id : DocIds, chunk_position : 0..MaxPosition, distance : Distances]

\* chunk['similarity'] * position_weight, position_weight = 1.0 / (chunk_position + 1)
WeightedSimilarity(chunk) == Similarity(chunk.distance) \div (chunk.chunk_position + 1)

\* the chunks of document d among the chunks found, in order
ChunksOf(chunks, d) == SelectSeq(chunks, LAMBDA c : c.document_id = d)

RECURSIVE SumWeighted(_)
SumWeighted(chunks) ==
    IF chunks = <<>> THEN 0
    ELSE WeightedSimilarity(Head(chunks)) + SumWeighted(Tail(chunks))

\* the keys of doc_scores, in order of first appearance
RECURSIVE DocOrder(_)
DocOrder(chunks) ==
    IF chunks = <<>> THEN <<>>
    ELSE LET init == DocOrder(SubSeq(chunks, 1, Len(chunks) - 1))
             d == chunks[Len(chunks)].document_id
         IN  IF \E k \in 1..Len(init) : init[k] = d THEN init ELSE Append(init, d)

\* _semantic_search, lines 76-107: semantic_score of a document is the sum of
\* its chunks' weighted similarities divided by max(chunk_count, 1)
SemanticSearch(chunks) ==
    LET order == DocOrder(chunks)
    IN  [k \in 1..Len(order) |->
            [id |-> order[k],
             score |-> LET chunk_count == Len(ChunksOf(chunks, order[k]))
                       IN  SumWeighted(ChunksOf(chunks, order[k]))
                               \div (IF chunk_count > 1 THEN chunk_count ELSE 1)]]

\* The rows of StorageManager.search_documents are rows of the documents table
\* whose title or content matches; title_match tells which.  They have no
\* relevance_score, so result.get('relevance_score', 0) is the default.
LexicalRows ==
    {rows \in SeqsUpTo([id : DocIds, title_match : BOOLEAN], MaxDoc) :
        \A i, j \in 1..Len(rows) : rows[i].id = rows[j].id => i = j}

RelevanceScore(row) == 0

FulltextResults(rows) ==
    [i \in 1..Len(rows) |-> [id |-> rows[i].id, score |-> RelevanceScore(rows[i])]]

ScoreCalls ==
    [op : {"score_call"}, lexical : LexicalRows,
     chunks : SeqsUpTo(SimilarChunks, MaxChunks)]

\* the pending hybrid search scores the rows of its legs
ScoreSearch ==
    /\ last.op = "score_call"
    /\ last' = [op |-> "score", lexical |-> last.lexical, chunks |-> last.chunks,
                semantic |-> SemanticSearch(last.chunks),
                fused |-> CombineHybridResults(
                              AddSearchType(FulltextResults(last.lexical), "fulltext")
                              \o AddSearchType(SemanticSearch(last.chunks), "semantic"))]
    /\ UNCHANGED <<store, conversation, env, pc, embedding_type, fallback_model, testCalls, documents,
                   collection, context_len>>

InitScore == InitCall(ScoreCalls)

NextScore == ScoreSearch

SpecScore == InitScore /\ [][NextScore]_vars

\* the relevance tag of a matching row: 3 for a title match, 1 for a match in
\* the body only
RelevanceTag(row) == IF row.title_match THEN 3 ELSE 1

\* C27: every score fed into the fusion lies in [0, 1]: the lexical score of a
\* document of the lexical leg is its 3/1/0 relevance tag divided by 3, and
\* the semantic score is neither negative nor above 1.
C27_ScoreRanges ==
    last.op = "score" =>
        \A k \in 1..Len(last.fused) :
            LET r == last.fused[k]
            IN  /\ 0 <= r.semantic_score /\ r.semantic_score <= 1440
                /\ 0 <= r.fulltext_score /\ r.fulltext_score <= 1440
                /\ \A i \in 1..Len(last.lexical) :
                      last.lexical[i].id = r.id =>
                          3 * r.fulltext_score = 1440 * RelevanceTag(last.lexical[i])

\* the semantic score of every document of the semantic leg is positive and at
\* most 1, and every other score fed into the fusion is 0
SemanticScoreInRange ==
    last.op = "score" =>
        \A k \in 1..Len(last.fused) :
            LET r == last.fused[k]
            IN  /\ r.semantic_score <= 1440
                /\ "semantic" \in r.search_types => r.semantic_score > 0
                /\ r.fulltext_score = 0

\* a document scored from three chunks, of which one is an exact match at
\* position 0
SemanticScoreCase ==
    /\ last.op = "score"
    /\ Len(last.chunks) = 3
    /\ Len(last.semantic) = 1
    /\ \E i \in 1..3 : last.chunks[i].distance = 0 /\ last.chunks[i].chunk_position = 0


(* Knowledge gaps *)

\* The results handed to _identify_knowledge_gaps are rows of
\* SearchEngine.search: domain is the row's 'domain' key, score its best
\* available score in thousandths, covered tells whether the content mentions
\* the entity of the query.  No row of search has a 'category' key.
GapDomains == {"technology", "science"}
GapScores == {100, 800}
GapResults == SeqsUpTo([domain : GapDomains, score : GapScores, covered : BOOLEAN], MaxDoc)
GapIntents == {"comparison", "factual"}

\* r.get('category', 'unknown').lower()
Category(r) == "unknown"

\* the entity of the query is in no result's content
Uncovered(has_entity, results) ==
    has_entity /\ \A k \in 1..Len(results) : ~results[k].covered

\* avg_score < 0.15
LowRelevance(results) ==
    results # <<>> /\
        SumScores([k \in 1..Len(results) |-> results[k].score]) < 150 * Len(results)

\* len(domains) == 1 and intent == 'comparison'
SingleDomain(intent, results) ==
    /\ Cardinality({Category(results[k]) : k \in 1..Len(results)}) = 1
    /\ intent = "comparison"

\* _identify_knowledge_gaps
IdentifyKnowledgeGaps(intent, has_entity, results) ==
    (IF Uncovered(has_entity, results) THEN <<"Limited information about">> ELSE <<>>)
    \o (IF LowRelevance(results)
        THEN <<"Search results have low relevance scores">> ELSE <<>>)
    \o (IF SingleDomain(intent, results)
        THEN <<"Limited perspective - results from single domain">> ELSE <<>>)

GapCalls ==
    [op : {"gaps_call"}, intent : GapIntents, has_entity : BOOLEAN, results : GapResults]

\* the pending call of _identify_knowledge_gaps returns
IdentifyGaps ==
    /\ last.op = "gaps_call"
    /\ last' = [op |-> "gaps", intent |-> last.intent, has_entity |-> last.has_entity,
                results |-> last.results,
                gaps |-> IdentifyKnowledgeGaps(last.intent, last.has_entity, last.results)]
    /\ UNCHANGED <<store, conversation, env, pc, embedding_type, fallback_model, testCalls, documents,
                   collection, context_len>>

InitGaps == InitCall(GapCalls)

NextGaps == IdentifyGaps

SpecGaps == InitGaps /\ [][NextGaps]_vars

\* C28: the single-domain gap is among the gaps exactly when the intent is
\* comparison and all results carry one and the same domain tag, whatever the
\* entity coverage and the scores are; with two or more distinct domain tags
\* it is not reported.
C28_SingleDomainGap ==
    last.op = "gaps" =>
        ((\E k \in 1..Len(last.gaps) :
              last.gaps[k] = "Limited perspective - results from single domain")
         <=> /\ last.intent = "comparison"
             /\ Cardinality({last.results[k].domain : k \in 1..Len(last.results)}) = 1)


(* The in-memory context window, checked under SpecChat *)

\* conversation_context holds the most recently added messages, at most
\* ContextWindow of them, in the order they were added
WindowHoldsMostRecent ==
    /\ Len(conversation_context) <= ContextWindow
    /\ Len(conversation_context) = Min(messages_added, ContextWindow)
    /\ \A i \in 1..Len(conversation_context) :
          conversation_context[i].serial =
              messages_added - Len(conversation_context) + i

\* a call of process_query that does not end in its except branch adds one
\* user message and then one assistant message
QueryAddsPair ==
    (last'.op = "process" /\ last'.kind # "error") =>
        LET n == Len(conversation_context')
        IN  /\ messages_added' = messages_added + 2
            /\ n >= 2
            /\ conversation_context'[n - 1] =
                  [role |-> "user", serial |-> messages_added + 1]
            /\ conversation_context'[n] =
                  [role |-> "assistant", serial |-> messages_added + 2]

\* C30: after any sequence of process_query calls conversation_context holds
\* at most 20 messages, which are the most recently added ones in the order
\* they were added, and each call that is processed without an internal error
\* adds exactly one user message followed by one assistant message.
C30_ContextWindow ==
    []WindowHoldsMostRecent /\ [][QueryAddsPair]_vars

\* a query answered after more than 20 messages were added
C30_Witness ==
    /\ last.op = "process"
    /\ last.kind # "error"
    /\ messages_added > ContextWindow
    /\ conversation_context[1].serial > 1


(* Conversation threads of chatbots with conversation management *)

\* everything but the conversation threads
others == <<env, pc, embedding_type, fallback_model, testCalls, documents, collection,
            context_len, store, conversation_context, messages_added>>

Greatest(S) == CHOOSE i \in S : \A j \in S : j <= i

\* the ids of the rows of the table; the threads of session s that were
\* updated within the last day
ThreadRows(t) == {i \in ThreadIds : t[i].session # "none"}
RecentThreads(t, s) == {i \in ThreadIds : t[i].session = s /\ t[i].recent}

\* the id the table gives an inserted row
NewThreadId(t) == IF ThreadRows(t) = {} THEN 1 ELSE Greatest(ThreadRows(t)) + 1

\* the table has room for one more row
CanInsert(t) == NewThreadId(t) \in ThreadIds

\* create_conversation_thread.  execute_query runs and commits the INSERT and
\* returns the rows fetched, [] for an INSERT, so "if result" fails and the
\* method returns None although the row exists.
CreateConversationThread(t, s) ==
    [threads |-> [t EXCEPT ![NewThreadId(t)] = [session |-> s, recent |-> TRUE]],
     id |-> None]

\* "return thread_id if thread_id else 1"
FallbackThread == 1

\* get_or_create_active_thread: the most recently updated thread of the
\* session among those of the last day (threads are updated in the order of
\* their ids here), else a new thread
GetOrCreateActiveThread(t, s) ==
    IF RecentThreads(t, s) # {}
    THEN [threads |-> t, id |-> Greatest(RecentThreads(t, s))]
    ELSE LET created == CreateConversationThread(t, s)
         IN  [threads |-> created.threads,
              id |-> IF created.id # None THEN created.id ELSE FallbackThread]

\* get_or_create_active_thread can run within the bound on thread ids
CanGetOrCreate(t, s) == RecentThreads(t, s) # {} \/ CanInsert(t)

\* ScopeAwareChatbot.__init__ for session s
NewChatbot(s) ==
    /\ current_thread_id[s] = NotConstructed
    /\ CanGetOrCreate(threads, s)
    /\ LET r == GetOrCreateActiveThread(threads, s)
       IN  /\ threads' = r.threads
           /\ current_thread_id' = [current_thread_id EXCEPT ![s] = r.id]
           /\ last' = [op |-> "new_chatbot", session |-> s, thread_id |-> r.id,
                       result |-> TRUE]
    /\ UNCHANGED others

\* start_new_conversation
StartNewConversation(s) ==
    /\ current_thread_id[s] # NotConstructed
    /\ CanInsert(threads)
    /\ LET created == CreateConversationThread(threads, s)
       IN  /\ threads' = created.threads
           /\ current_thread_id' = [current_thread_id EXCEPT ![s] = created.id]
           /\ last' = [op |-> "start", session |-> s, thread_id |-> created.id,
                       result |-> created.id # None]
    /\ UNCHANGED others

\* switch_conversation(thread_id): the thread must be among the conversations
\* of the session
SwitchConversation(s, thread_id) ==
    /\ current_thread_id[s] # NotConstructed
    /\ LET valid_thread == threads[thread_id].session = s
       IN  /\ current_thread_id' =
                 IF valid_thread THEN [current_thread_id EXCEPT ![s] = thread_id]
                 ELSE current_thread_id
           /\ last' = [op |-> "switch", session |-> s, thread_id |-> thread_id,
                       result |-> valid_thread]
    /\ UNCHANGED <<threads, others>>

\* ConversationStorageManager.delete_conversation: the ownership check, then
\* the DELETE
StorageDeleteConversation(t, thread_id, s) ==
    IF t[thread_id].session # s THEN [threads |-> t, success |-> FALSE]
    ELSE [threads |-> [t EXCEPT ![thread_id] = NoThread], success |-> TRUE]

\* ScopeAwareChatbot.delete_conversation(thread_id)
DeleteConversation(s, thread_id) ==
    /\ current_thread_id[s] # NotConstructed
    /\ LET d == StorageDeleteConversation(threads, thread_id, s)
           renew == d.success /\ thread_id = current_thread_id[s]
       IN  /\ renew => CanGetOrCreate(d.threads, s)
           /\ LET r == IF renew THEN GetOrCreateActiveThread(d.threads, s)
                       ELSE [threads |-> d.threads, id |-> current_thread_id[s]]
              IN  /\ threads' = r.threads
                  /\ current_thread_id' = [current_thread_id EXCEPT ![s] = r.id]
           /\ last' = [op |-> "delete", session |-> s, thread_id |-> thread_id,
                       result |-> d.success]
    /\ UNCHANGED others

\* a day passes without any thread being updated
DayPasses ==
    /\ \E i \in ThreadIds : threads[i].recent
    /\ threads' = [i \in ThreadIds |-> [threads[i] EXCEPT !.recent = FALSE]]
    /\ last' = [op |-> "day"]
    /\ UNCHANGED <<current_thread_id, others>>

InitThreads == InitCall({[op |-> "init"]})

NextThreads ==
    \/ \E s \in Sessions : NewChatbot(s) \/ StartNewConversation(s)
    \/ \E s \in Sessions, thread_id \in ThreadIds :
          SwitchConversation(s, thread_id) \/ DeleteConversation(s, thread_id)
    \/ DayPasses

SpecThreads == InitThreads /\ [][NextThreads]_vars

\* current_thread_id of every chatbot is a thread of the chatbot's session
CurrentThreadOwned ==
    \A s \in Sessions :
        current_thread_id[s] # NotConstructed =>
            /\ current_thread_id[s] \in ThreadIds
            /\ threads[current_thread_id[s]].session = s

\* switch_conversation and delete_conversation on a thread of another session
\* return False and change neither current_thread_id nor the table
ForeignThreadUntouched ==
    ( /\ last'.op \in {"switch", "delete"}
      /\ threads[last'.thread_id].session \notin {"none", last'.session} ) =>
        /\ last'.result = FALSE
        /\ current_thread_id' = current_thread_id
        /\ threads' = threads

\* C29: after any sequence of chatbot constructions, start_new_conversation,
\* switch_conversation and delete_conversation calls, current_thread_id of a
\* chatbot is a thread of its own session, and a switch to or a delete of a
\* thread of another session returns False and changes neither
\* current_thread_id nor the thread.
C29_ThreadOwnership ==
    []CurrentThreadOwned /\ [][ForeignThreadUntouched]_vars

\* the second half of C29 on its own
ForeignThreadRefused == [][ForeignThreadUntouched]_vars

\* a switch to a thread of another session was refused
ForeignThreadCase ==
    /\ last.op = "switch"
    /\ ~last.result
    /\ threads[last.thread_id].session \notin {"none", last.session}

====
